---------------------------- MODULE Spec2Model ----------------------------
(***************************************************************************)
(* Model of the tips-app payment coordination layer:                       *)
(*   - the /api/tip route (GET, handle402Response, handlePaymentSubmission)*)
(*   - the supported-networks cache of lib/x402.ts                         *)
(*   - the client payment hook (createInputTokenPolicy,                    *)
(*     preferExactSelector, usePayment)                                    *)
(* Strings whose characters matter (addresses, network ids) are sequences  *)
(* of tokens so that toLowerCase and the eip155 pattern are computed.      *)
(***************************************************************************)
EXTENDS Integers, Sequences, FiniteSets, TLC

\* ------------------------------------------------------------------------
\* Bounds of the model
\* ------------------------------------------------------------------------

\* longest list one quote source returns
MaxQuotes == 2

\* longest accepts list handed to the payment hook
MaxAccepts == 3

\* ------------------------------------------------------------------------
\* Values
\* ------------------------------------------------------------------------

\* a missing query parameter / header (searchParams.get gives null)
NULL == <<>>

\* a property that is undefined on a JS object
Undefined == "undefined"

None == [some |-> FALSE]

Some(v) == [some |-> TRUE, val |-> v]

RECURSIVE SeqsUpTo(_, _)
SeqsUpTo(S, n) ==
    IF n = 0 THEN {<<>>}
    ELSE LET shorter == SeqsUpTo(S, n - 1)
         IN  shorter \cup {Append(s, x) : s \in {t \in shorter : Len(t) = n - 1}, x \in S}

\* String.prototype.toLowerCase on one character
LowerChar(c) ==
    CASE c = "A" -> "a"
      [] c = "B" -> "b"
      [] c = "C" -> "c"
      [] c = "R" -> "r"
      [] OTHER -> c

UpperChar(c) ==
    CASE c = "a" -> "A"
      [] c = "b" -> "B"
      [] c = "c" -> "C"
      [] c = "r" -> "R"
      [] OTHER -> c

toLowerCase(s) == [i \in DOMAIN s |-> LowerChar(s[i])]

\* token contracts (as the facilitator spells them) and wallet spellings
USDC == <<"0x", "A", "1">>
WETH == <<"0x", "b", "2">>
DAI  == <<"0x", "C", "3">>

\* networks: "eip155:8453", "eip155:84532", "eip155:999999"
Base == <<"eip155", ":", "8", "4", "5", "3">>
BaseSepolia == <<"eip155", ":", "8", "4", "5", "3", "2">>
Unsupported == <<"eip155", ":", "9", "9", "9", "9", "9", "9">>

Digits == {"0", "1", "2", "3", "4", "5", "6", "7", "8", "9"}

\* network.match(/^eip155:\d+$/)
matchesEip155(network) ==
    /\ Len(network) >= 3
    /\ network[1] = "eip155"
    /\ network[2] = ":"
    /\ \A i \in 3..Len(network) : network[i] \in Digits

\* includes(), on a sequence
includes(list, x) == \E i \in DOMAIN list : list[i] = x

\* ------------------------------------------------------------------------
\* Codec: JSON.stringify / JSON.parse and Buffer base64
\* ------------------------------------------------------------------------

\* keys whose value may be undefined in a response body
OptionalKeys == {"transaction"}

\* JSON.stringify leaves out the properties whose value is undefined
JSONStringify(v) ==
    [json |-> [k \in {x \in DOMAIN v : ~(x \in OptionalKeys /\ v[x] = Undefined)} |-> v[k]]]

\* JSON.stringify of an array of requirement records
JSONStringifyList(l) == [json |-> l]

\* a text that is no JSON
NotJson == [garbage |-> TRUE]

JSONParseThrows(text) == "json" \notin DOMAIN text

JSONParse(text) == text.json

\* Buffer.from(text).toString("base64")
Base64Encode(text) == [b64 |-> text]

\* Buffer.from(value, "base64").toString()
Base64Decode(value) == value.b64


\* ------------------------------------------------------------------------
\* parseFloat, in thousandths
\* ------------------------------------------------------------------------

DigitVal(c) ==
    CASE c = "0" -> 0 [] c = "1" -> 1 [] c = "2" -> 2 [] c = "3" -> 3
      [] c = "4" -> 4 [] c = "5" -> 5 [] c = "6" -> 6 [] c = "7" -> 7
      [] c = "8" -> 8 [] c = "9" -> 9

RECURSIVE LeadingDigits(_)
LeadingDigits(s) ==
    IF s = <<>> \/ Head(s) \notin Digits THEN 0 ELSE 1 + LeadingDigits(Tail(s))

RECURSIVE DigitsValue(_, _)
DigitsValue(s, n) ==
    IF n = 0 THEN 0 ELSE DigitsValue(s, n - 1) * 10 + DigitVal(s[n])

NaN == [nan |-> TRUE, milli |-> 0]

\* parseFloat(text): the longest numeric prefix, NaN when there is none
parseFloat(text) ==
    LET neg == text # <<>> /\ Head(text) = "-"
        body == IF neg THEN Tail(text) ELSE text
        nInt == LeadingDigits(body)
        rest == SubSeq(body, nInt + 1, Len(body))
        frac == IF rest # <<>> /\ Head(rest) = "." THEN Tail(rest) ELSE <<>>
        nFrac == LeadingDigits(frac)
        f1 == IF nFrac >= 1 THEN DigitVal(frac[1]) ELSE 0
        f2 == IF nFrac >= 2 THEN DigitVal(frac[2]) ELSE 0
        f3 == IF nFrac >= 3 THEN DigitVal(frac[3]) ELSE 0
        abs == DigitsValue(body, nInt) * 1000 + f1 * 100 + f2 * 10 + f3
    IN  IF nInt = 0 /\ nFrac = 0 THEN NaN
        ELSE [nan |-> FALSE, milli |-> IF neg THEN 0 - abs ELSE abs]

\* ------------------------------------------------------------------------
\* Recipient resolution (lib/ens)
\* ------------------------------------------------------------------------

HexChars == Digits \cup {"a", "b", "c", "r", "A", "B", "C", "R"}

\* viem isAddress
isAddress(to) ==
    /\ Len(to) = 3
    /\ to[1] = "0x"
    /\ to[2] \in HexChars
    /\ to[3] \in HexChars

\* viem getAddress: the checksummed spelling
getAddress(a) == <<a[1], UpperChar(a[2]), UpperChar(a[3])>>

Recipient1 == <<"0x", "r", "1">>
Recipient2 == <<"0x", "R", "2">>
EnsName == <<"alice", ".eth">>
BadName == <<"!!">>

\* what the name-resolution RPC may answer for a name: an address or nothing
EnsAnswers == {Some(Recipient2), None}

\* the inputs for which resolveRecipient asks the name-resolution RPC
isName(to) == to # <<>> /\ to[Len(to)] \in {".eth", ".base.eth"}

\* resolveRecipient(to), given the RPC answer used when `to` is a name
resolveRecipient(to, answer) ==
    IF isAddress(to) THEN Some(getAddress(to))
    ELSE IF isName(to) /\ answer.some THEN Some(getAddress(answer.val))
    ELSE None


\* ------------------------------------------------------------------------
\* Facilitator and quote sources (external collaborators): what they answer
\* ------------------------------------------------------------------------

\* facilitator.getSupported(): the kinds it may list
KindsChoices ==
    { <<>>,
      << [scheme |-> "exact", network |-> Base],
         [scheme |-> "escrow", network |-> Base],
         [scheme |-> "escrow", network |-> BaseSepolia] >>,
      << [scheme |-> "upto", network |-> Unsupported],
         [scheme |-> "escrow", network |-> BaseSepolia] >>,
      << [scheme |-> "exact", network |-> <<"base">>],
         [scheme |-> "exact", network |-> Base] >> }

EmptyExtra == [swapData |-> None]

SwapExtra(inputToken, calldata) ==
    [swapData |-> Some([inputToken |-> inputToken, maxInputAmount |-> "500",
                        calldata |-> calldata])]

\* a network and a payee that differ from every request's
OtherNetwork == <<"eip155", ":", "1">>
OtherPayee == <<"0x", "C", "9">>

\* what server.buildPaymentRequirements may return for one requirement
ExactItems(network, amount, payTo) ==
    { [scheme |-> "exact", network |-> network, asset |-> USDC, amount |-> amount,
       payTo |-> payTo, maxTimeoutSeconds |-> 300, extra |-> EmptyExtra],
      [scheme |-> "exact", network |-> network, asset |-> <<>>, amount |-> amount,
       payTo |-> payTo, maxTimeoutSeconds |-> 0, extra |-> EmptyExtra],
      [scheme |-> "exact", network |-> OtherNetwork, asset |-> USDC, amount |-> amount,
       payTo |-> payTo, maxTimeoutSeconds |-> 600, extra |-> EmptyExtra] }

\* what escrow.buildAcceptsResolved may return for one accept: the price is an
\* object { amount, asset, extra } or a primitive
EscrowItems(network, amount, payTo) ==
    { [scheme |-> "escrow", network |-> network, payTo |-> payTo, maxTimeoutSeconds |-> 0,
       price |-> [isObject |-> TRUE, amount |-> amount, asset |-> USDC,
                  extra |-> SwapExtra(WETH, "compressed")]],
      [scheme |-> "escrow", network |-> network, payTo |-> payTo, maxTimeoutSeconds |-> 120,
       price |-> [isObject |-> FALSE, text |-> amount]],
      [scheme |-> "escrow", network |-> network, payTo |-> OtherPayee, maxTimeoutSeconds |-> 0,
       price |-> [isObject |-> TRUE, amount |-> amount, asset |-> USDC,
                  extra |-> SwapExtra(WETH, "compressed")]] }

Rejected == [status |-> "rejected"]

Fulfilled(value) == [status |-> "fulfilled", value |-> value]

\* the settled result of one quote call (Promise.allSettled)
SettledResults(items) == {Rejected} \cup {Fulfilled(l) : l \in SeqsUpTo(items, MaxQuotes)}

\* facilitator.verify: { isValid, invalidReason? } or an exception
VerifyOutcomes ==
    { [threw |-> FALSE, isValid |-> TRUE, invalidReason |-> Undefined],
      [threw |-> FALSE, isValid |-> FALSE, invalidReason |-> "insufficient_funds"],
      [threw |-> FALSE, isValid |-> FALSE, invalidReason |-> Undefined],
      [threw |-> TRUE, message |-> "verify failed: 500"] }

\* facilitator.settle: { success, transaction?, network?, errorReason? } or an exception
SettleOutcomes ==
    { [threw |-> FALSE, success |-> TRUE, transaction |-> "0xtx", network |-> NULL,
       errorReason |-> Undefined],
      [threw |-> FALSE, success |-> TRUE, transaction |-> Undefined, network |-> BaseSepolia,
       errorReason |-> Undefined],
      [threw |-> FALSE, success |-> FALSE, transaction |-> Undefined, network |-> NULL,
       errorReason |-> "swap_reverted"],
      [threw |-> FALSE, success |-> FALSE, transaction |-> Undefined, network |-> NULL,
       errorReason |-> Undefined],
      [threw |-> TRUE, message |-> "settle failed: 502"] }

\* ------------------------------------------------------------------------
\* Requests
\* ------------------------------------------------------------------------

ToValues == {NULL, Recipient1, EnsName, BadName}

AmountValues ==
    {NULL, <<"0">>, <<"-", "5">>, <<"abc">>, <<"1", ".", "0", "0">>, <<"0", ".", "0", "0", "1">>}

NetworkValues == {NULL, Base, BaseSepolia, Unsupported, <<"base">>}

\* requirements a submitted payload may name as accepted
AcceptedValues ==
    { [scheme |-> "exact", network |-> Base, asset |-> USDC, amount |-> <<"1", ".", "0", "0">>,
       payTo |-> getAddress(Recipient1), maxTimeoutSeconds |-> 600, extra |-> EmptyExtra],
      [scheme |-> "escrow", network |-> Base, asset |-> USDC, amount |-> <<"1", ".", "0", "0">>,
       payTo |-> getAddress(Recipient1), maxTimeoutSeconds |-> 600,
       extra |-> SwapExtra(WETH, "compressed")],
      [scheme |-> "exact", network |-> Base, asset |-> USDC, amount |-> <<"1", ".", "0", "0">>,
       payTo |-> OtherPayee, maxTimeoutSeconds |-> 600, extra |-> EmptyExtra] }

SignedData == [signature |-> "0xsig"]

JsonNull == [isNull |-> TRUE]

\* the JSON values a PAYMENT-SIGNATURE header may decode to: null, or an object
\* in which accepted and payload are present or absent
PayloadObjects ==
    { [isNull |-> FALSE, x402Version |-> 2, accepted |-> a, payload |-> p] :
        a \in {None} \cup {Some(x) : x \in AcceptedValues},
        p \in {None, Some(SignedData)} }

\* the header values: base64 of a text that is no JSON, of "null", of an object
SignatureValues ==
    {Base64Encode(NotJson), Base64Encode([json |-> JsonNull])}
        \cup {Base64Encode([json |-> o]) : o \in PayloadObjects}


\* ------------------------------------------------------------------------
\* State
\* ------------------------------------------------------------------------

VARIABLES
    sPc,                \* where the GET handler of the request in hand is suspended
    sReq,               \* the request: to, amount, network, PAYMENT-SIGNATURE header
    sRecipient,         \* recipientAddress
    sSupported,         \* supportedNetworks of GET, once getSupportedNetworks returned
    sNetwork,           \* network, after defaulting
    sExact,             \* exactResult, once settled
    sEscrow,            \* escrowResult, once settled
    sProcessed,         \* processedPayload
    sVerify,            \* verifyResult, once returned
    sSettle,            \* settleResult, once returned
    sCaught,            \* whether the catch block of handlePaymentSubmission ran
    sCalls,             \* the outbound calls made for the request, in order
    sResp,              \* the response
    supportedNetworks,  \* _supportedNetworks of lib/x402
    cPc,                \* where the mutationFn of usePayment is suspended
    cParams,            \* its PaymentParams
    cFiltered,          \* what the input-token policy kept
    cChosen,            \* the requirement the selector returned
    cPrompts,           \* wallet signature prompts shown
    cSent,              \* requests sent with a PAYMENT-SIGNATURE header
    cOutcome,           \* how the mutation ended: a PaymentResult or an error
    fPc,                \* whether handleSubmit of TipForm is awaiting mutateAsync
    fConnected,         \* walletClient and address are present
    fToken,             \* selectedToken
    fAmount,            \* amount
    fRequirements,      \* paymentRequirements
    fFetching,          \* isLoading || isFetching of usePaymentRequirements
    fQuoted,            \* the amount and network paymentRequirements was fetched for
    fDebounced,         \* debouncedAmount
    fNetwork,           \* network, the wallet's chain
    fNetworks,          \* networks of useSupportedNetworks, once loaded
    fAllowance,         \* the allowance query of usePermit2Allowance
    fApproval,          \* status and txHash of usePermit2Approve
    fError,             \* error, the form's error slot
    fStarted,           \* of the last event, if a submit: what mutateAsync was called with
    fResult,            \* of the last event, if a submit's end: what it made of the outcome
    server,             \* _server of lib/x402: the instance and how far it is set up
    supportedData,      \* _supportedData of lib/x402
    gCallers            \* the callers of getServer: where each is, what it was given

serverVars ==
    <<sPc, sReq, sRecipient, sSupported, sNetwork, sExact, sEscrow, sProcessed, sVerify,
      sSettle, sCaught, sCalls, sResp, supportedNetworks>>

clientVars == <<cPc, cParams, cFiltered, cChosen, cPrompts, cSent, cOutcome>>

formVars ==
    <<fPc, fConnected, fToken, fAmount, fRequirements, fFetching, fQuoted, fDebounced,
      fNetwork, fNetworks, fAllowance, fApproval, fError, fStarted, fResult>>

libVars == <<server, supportedData, gCallers>>

vars == <<serverVars, clientVars, formVars, libVars>>

\* ------------------------------------------------------------------------
\* Responses
\* ------------------------------------------------------------------------

NoHeaders == [paymentRequired |-> None, paymentResponse |-> None, expose |-> None]

NoResponse == [status |-> 0, body |-> [json |-> <<>>], headers |-> NoHeaders]

NoRequest == [to |-> NULL, amount |-> NULL, network |-> NULL, sig |-> None]

ExposeHeaders == <<"PAYMENT-REQUIRED", "PAYMENT-RESPONSE">>

\* NextResponse.json(body, { status })
NextResponseJson(body, status) ==
    [status |-> status, body |-> JSONStringify(body), headers |-> NoHeaders]

\* response.headers.set("PAYMENT-RESPONSE", base64(JSON.stringify(body))) and the
\* Access-Control-Expose-Headers header
WithPaymentResponse(body, status) ==
    [NextResponseJson(body, status) EXCEPT
        !.headers.paymentResponse = Some(Base64Encode(JSONStringify(body))),
        !.headers.expose = Some(ExposeHeaders)]

\* response.headers.set("PAYMENT-REQUIRED", ...) and the expose header
WithPaymentRequired(body, status, requirements) ==
    [NextResponseJson(body, status) EXCEPT
        !.headers.paymentRequired = Some(Base64Encode(JSONStringifyList(requirements))),
        !.headers.expose = Some(ExposeHeaders)]

\* an exception that leaves GET: the framework answers 500
UnhandledError == NextResponseJson([error |-> <<"Internal Server Error">>], 500)

\* ------------------------------------------------------------------------
\* lib/x402: supported networks
\* ------------------------------------------------------------------------

\* the networks of the exact and escrow kinds, each once, in order of appearance
RECURSIVE networksOf(_, _)
networksOf(kinds, acc) ==
    IF kinds = <<>> THEN acc
    ELSE LET kind == Head(kinds)
             keep == kind.scheme \in {"exact", "escrow"} /\ ~includes(acc, kind.network)
         IN  networksOf(Tail(kinds), IF keep THEN Append(acc, kind.network) ELSE acc)

\* variant: an empty list is not taken for a cached one
getSupportedNetworks_RefetchesEmpty(cache, kinds) ==
    IF cache.some /\ Len(cache.val) > 0
    THEN [list |-> cache.val, cache |-> cache, called |-> FALSE]
    ELSE LET list == networksOf(kinds, <<>>)
         IN  [list |-> list, cache |-> Some(list), called |-> TRUE]

\* getSupportedNetworks(): [list, cache', called] given the facilitator's answer;
\* the cached list is returned when there is one
getSupportedNetworks(cache, kinds) ==
    IF cache.some
    THEN [list |-> cache.val, cache |-> cache, called |-> FALSE]
    ELSE LET list == networksOf(kinds, <<>>)
         IN  [list |-> list, cache |-> Some(list), called |-> TRUE]

\* ------------------------------------------------------------------------
\* Requirements cache of the route
\* ------------------------------------------------------------------------

getCacheKey(network, amount, recipient) == <<network, amount, toLowerCase(recipient)>>

\* variant: a list stored for an earlier request is found
getCachedRequirements_Hit(key) ==
    Some(<< [scheme |-> "exact", network |-> key[1], asset |-> USDC, amount |-> key[2],
             payTo |-> key[3], maxTimeoutSeconds |-> 600, extra |-> EmptyExtra] >>)

\* always null
getCachedRequirements(key) == None

\* ------------------------------------------------------------------------
\* handle402Response
\* ------------------------------------------------------------------------

\* the record pushed for one exact requirement
normalizeExact(req) ==
    [scheme |-> req.scheme,
     network |-> req.network,
     asset |-> req.asset,
     amount |-> req.amount,
     payTo |-> req.payTo,
     maxTimeoutSeconds |-> IF req.maxTimeoutSeconds = 0 THEN 600 ELSE req.maxTimeoutSeconds,
     extra |-> req.extra]

\* variant: payTo read from the flattened price instead of the accept
normalizeEscrow_PayeeFromPrice(accept) ==
    [scheme |-> accept.scheme,
     network |-> accept.network,
     asset |-> IF accept.price.isObject THEN accept.price.asset ELSE <<>>,
     amount |-> IF accept.price.isObject THEN accept.price.amount ELSE accept.price.text,
     payTo |-> <<>>,
     maxTimeoutSeconds |-> IF accept.maxTimeoutSeconds = 0 THEN 600
                           ELSE accept.maxTimeoutSeconds,
     extra |-> IF accept.price.isObject THEN accept.price.extra ELSE EmptyExtra]

\* the record pushed for one escrow accept: price flattened
normalizeEscrow(accept) ==
    LET price == accept.price
        priceObj == IF price.isObject THEN price
                    ELSE [isObject |-> TRUE, amount |-> price.text, asset |-> <<>>,
                          extra |-> EmptyExtra]
    IN  [scheme |-> accept.scheme,
         network |-> accept.network,
         asset |-> priceObj.asset,
         amount |-> priceObj.amount,
         payTo |-> accept.payTo,
         maxTimeoutSeconds |-> IF accept.maxTimeoutSeconds = 0 THEN 600
                               ELSE accept.maxTimeoutSeconds,
         extra |-> priceObj.extra]

normalizedExact(exactResult) ==
    IF exactResult.status = "fulfilled"
    THEN [i \in DOMAIN exactResult.value |-> normalizeExact(exactResult.value[i])]
    ELSE <<>>

normalizedEscrow(escrowResult) ==
    IF escrowResult.status = "fulfilled"
    THEN [i \in DOMAIN escrowResult.value |-> normalizeEscrow(escrowResult.value[i])]
    ELSE <<>>

\* variant: Promise.all instead of Promise.allSettled, one rejection loses both
combine_AllOrNothing(exactResult, escrowResult) ==
    IF exactResult.status = "fulfilled" /\ escrowResult.status = "fulfilled"
    THEN normalizedExact(exactResult) \o normalizedEscrow(escrowResult)
    ELSE <<>>

\* paymentRequirements: the exact requirements, then the escrow ones
combine(exactResult, escrowResult) ==
    normalizedExact(exactResult) \o normalizedEscrow(escrowResult)

challengeBody(to, amount, network, message) ==
    [message |-> message, recipient |-> to, amount |-> amount, network |-> network]

\* variant: the length check left out
handle402Response_NoEmptyCheck(to, amount, network, exactResult, escrowResult) ==
    WithPaymentRequired(challengeBody(to, amount, network, "Payment required"),
                        402, combine(exactResult, escrowResult))

\* the response once both quote calls have settled
handle402Response(to, amount, network, exactResult, escrowResult) ==
    LET paymentRequirements == combine(exactResult, escrowResult)
    IN  IF Len(paymentRequirements) = 0
        THEN NextResponseJson([error |-> <<"No payment options available">>], 500)
        ELSE WithPaymentRequired(challengeBody(to, amount, network, "Payment required"),
                                 402, paymentRequirements)

\* the response of the cache-hit branch
cachedResponse(to, amount, network, cached) ==
    WithPaymentRequired(challengeBody(to, amount, network, "Payment required (cached)"),
                        402, cached)


\* ------------------------------------------------------------------------
\* handlePaymentSubmission
\* ------------------------------------------------------------------------

\* variant: the payload is forwarded as it was received
preprocessSwapPayload_Skipped(full) == full

\* preprocessSwapPayload: compressed swap calldata of the accepted requirement
\* is decompressed
preprocessSwapPayload(full) ==
    LET swap == full.accepted.extra.swapData
    IN  IF swap.some /\ swap.val.calldata = "compressed"
        THEN [full EXCEPT !.accepted.extra.swapData.val.calldata = "raw"]
        ELSE full

resourceOf(to, amount, network) ==
    [url |-> <<"/api/tip?to=", to, "&amount=", amount, "&network=", network>>,
     description |-> <<"Tip of $", amount, " to ", to>>,
     mimeType |-> "application/json"]

errorResult(reason) == [success |-> FALSE, errorReason |-> reason]

\* the catch block
caughtResponse(message) ==
    WithPaymentResponse(errorResult(<<"Payment processing error: ", message>>), 500)

\* missing accepted or payload
malformedResponse ==
    NextResponseJson([error |-> <<"Invalid payment payload: missing accepted or payload">>], 400)

\* from the entry to the first await: decode, check, build, preprocess.
\* [next |-> "respond", resp] or [next |-> "verify", processed]
decodeSubmission(to, amount, network, paymentSignature, preprocessOk) ==
    LET text == Base64Decode(paymentSignature)
    IN  IF JSONParseThrows(text)
        THEN [next |-> "respond", caught |-> TRUE,
              resp |-> caughtResponse("Unexpected token in JSON")]
        ELSE LET paymentPayload == JSONParse(text)
             IN  IF paymentPayload.isNull
                 THEN [next |-> "respond", caught |-> TRUE,
                       resp |-> caughtResponse("Cannot destructure property of null")]
                 ELSE IF ~paymentPayload.accepted.some \/ ~paymentPayload.payload.some
                 THEN [next |-> "respond", caught |-> FALSE, resp |-> malformedResponse]
                 ELSE IF ~preprocessOk
                 THEN [next |-> "respond", caught |-> TRUE,
                       resp |-> caughtResponse("preprocess failed")]
                 ELSE [next |-> "verify", caught |-> FALSE,
                       processed |-> preprocessSwapPayload(
                           [x402Version |-> paymentPayload.x402Version,
                            resource |-> resourceOf(to, amount, network),
                            accepted |-> paymentPayload.accepted.val,
                            payload |-> paymentPayload.payload.val])]

\* variant: isValid is not looked at
afterVerify_SkipsValidity(verifyResult) ==
    IF verifyResult.threw
    THEN [next |-> "respond", resp |-> caughtResponse(verifyResult.message)]
    ELSE [next |-> "settle"]

\* after facilitator.verify has returned: [next |-> "respond", resp] or "settle"
afterVerify(verifyResult) ==
    IF verifyResult.threw
    THEN [next |-> "respond", resp |-> caughtResponse(verifyResult.message)]
    ELSE IF ~verifyResult.isValid
    THEN [next |-> "respond",
          resp |-> WithPaymentResponse(
              errorResult(IF verifyResult.invalidReason = Undefined
                          THEN <<"Payment verification failed">>
                          ELSE <<verifyResult.invalidReason>>), 402)]
    ELSE [next |-> "settle"]

\* variant: success is not looked at
afterSettle_IgnoresFailure(to, amount, network, recipientAddress, settleResult) ==
    IF settleResult.threw
    THEN caughtResponse(settleResult.message)
    ELSE WithPaymentResponse(
             [success |-> TRUE,
              message |-> <<"Tip of $", amount, " received by ", to>>,
              transaction |-> settleResult.transaction,
              network |-> IF settleResult.network = NULL THEN network
                          ELSE settleResult.network,
              recipient |-> recipientAddress,
              amount |-> amount], 200)

\* after facilitator.settle has returned: the response
afterSettle(to, amount, network, recipientAddress, settleResult) ==
    IF settleResult.threw
    THEN caughtResponse(settleResult.message)
    ELSE IF ~settleResult.success
    THEN WithPaymentResponse(
             errorResult(IF settleResult.errorReason = Undefined
                         THEN <<"Payment settlement failed">>
                         ELSE <<settleResult.errorReason>>), 402)
    ELSE WithPaymentResponse(
             [success |-> TRUE,
              message |-> <<"Tip of $", amount, " received by ", to>>,
              transaction |-> settleResult.transaction,
              network |-> IF settleResult.network = NULL THEN network
                          ELSE settleResult.network,
              recipient |-> recipientAddress,
              amount |-> amount], 200)


\* ------------------------------------------------------------------------
\* GET /api/tip, one action per stretch between two awaits
\* ------------------------------------------------------------------------

\* variant: only a negative amount is refused
validateParams_AllowsZero(to, amount) ==
    IF to = NULL \/ amount = NULL
    THEN Some(NextResponseJson(
             [error |-> <<"Missing", " required parameters: to, amount">>], 400))
    ELSE IF parseFloat(amount).nan \/ parseFloat(amount).milli < 0
    THEN Some(NextResponseJson(
             [error |-> <<"Invalid amount", ". Must be a positive number.">>], 400))
    ELSE None

\* the checks of to and amount: the 400 response, or none when they pass
validateParams(to, amount) ==
    IF to = NULL \/ amount = NULL
    THEN Some(NextResponseJson(
             [error |-> <<"Missing", " required parameters: to, amount">>], 400))
    ELSE IF parseFloat(amount).nan \/ parseFloat(amount).milli <= 0
    THEN Some(NextResponseJson(
             [error |-> <<"Invalid amount", ". Must be a positive number.">>], 400))
    ELSE None

Respond(resp) ==
    /\ sPc' = "done"
    /\ sResp' = resp

\* a request arrives: parameter and amount validation, then resolveRecipient
Receive(to, amount, network, sig) ==
    /\ sPc = "idle"
    /\ UNCHANGED <<clientVars, formVars, libVars>>
    /\ sReq' = [to |-> to, amount |-> amount, network |-> network, sig |-> sig]
    /\ sCalls' = <<>>
    /\ IF validateParams(to, amount).some
       THEN Respond(validateParams(to, amount).val)
       ELSE /\ sPc' = "resolve"
            /\ sResp' = NoResponse
    /\ UNCHANGED <<sRecipient, sSupported, sNetwork, sExact, sEscrow, sProcessed, sVerify, sSettle,
                   sCaught, supportedNetworks>>

\* resolveRecipient returns
ResolveReturns(answer) ==
    /\ sPc = "resolve"
    /\ UNCHANGED <<clientVars, formVars, libVars>>
    /\ LET resolved == resolveRecipient(sReq.to, answer)
       IN  /\ sCalls' = IF isName(sReq.to) THEN Append(sCalls, [op |-> "getEnsAddress"])
                        ELSE sCalls
           /\ IF ~resolved.some
              THEN /\ Respond(NextResponseJson(
                          [error |-> <<"Could not resolve recipient: ", sReq.to>>], 400))
                   /\ UNCHANGED sRecipient
              ELSE /\ sRecipient' = resolved.val
                   /\ sPc' = "supported"
                   /\ UNCHANGED sResp
    /\ UNCHANGED <<sReq, sSupported, sNetwork, sExact, sEscrow, sProcessed, sVerify, sSettle,
                   sCaught, supportedNetworks>>

\* getSupportedNetworks rejects: the exception leaves GET
SupportedThrows ==
    /\ sPc = "supported"
    /\ UNCHANGED <<clientVars, formVars, libVars>>
    /\ ~supportedNetworks.some
    /\ sCalls' = Append(sCalls, [op |-> "getSupported"])
    /\ Respond(UnhandledError)
    /\ UNCHANGED <<sReq, sRecipient, sSupported, sNetwork, sExact, sEscrow, sProcessed, sVerify,
                   sSettle, sCaught, supportedNetworks>>

\* variant: the network that was asked for, even when none was
defaultNetwork_KeepsNull(network, list) == network

\* if (!network) network = supportedNetworks[0], for a list that is not empty
defaultNetwork(network, list) ==
    IF network = NULL /\ Len(list) > 0 THEN list[1] ELSE network

\* variant: only the form of the network is checked
validateNetwork_FormatOnly(network, list) ==
    IF ~matchesEip155(network)
    THEN Some(NextResponseJson(
             [error |-> <<"Invalid network format. Use eip155:CHAINID">>], 400))
    ELSE None

\* the checks of the network: the 400 response, or none when they pass
validateNetwork(network, list) ==
    IF ~matchesEip155(network)
    THEN Some(NextResponseJson(
             [error |-> <<"Invalid network format. Use eip155:CHAINID">>], 400))
    ELSE IF ~includes(list, network)
    THEN Some(NextResponseJson(
             [error |-> <<"Network ", network, " not supported">>,
              supportedNetworks |-> list], 400))
    ELSE None

\* the calls started by handle402Response
quoteCalls(network, amount, payTo) ==
    << [op |-> "buildPaymentRequirements", network |-> network, price |-> <<"$", amount>>,
        payTo |-> payTo],
       [op |-> "buildAcceptsResolved", network |-> network, price |-> <<"$", amount>>,
        payTo |-> payTo] >>

\* getSupportedNetworks returns: network validation, then the 402 branch up to
\* Promise.allSettled or the submission branch up to facilitator.verify
SupportedReturns(kinds, preprocessOk) ==
    /\ sPc = "supported"
    /\ UNCHANGED <<clientVars, formVars, libVars>>
    /\ LET got == getSupportedNetworks(supportedNetworks, kinds)
           list == got.list
           network == defaultNetwork(sReq.network, list)
           refused == validateNetwork(network, list)
           calls == IF got.called THEN Append(sCalls, [op |-> "getSupported"]) ELSE sCalls
           cached == getCachedRequirements(getCacheKey(network, sReq.amount, sRecipient))
           sub == decodeSubmission(sReq.to, sReq.amount, network, sReq.sig.val, preprocessOk)
       IN  /\ supportedNetworks' = got.cache
           /\ sSupported' = Some(list)
           /\ sCaught' = (sReq.sig.some /\ Len(list) > 0 /\ ~refused.some /\ sub.caught)
           /\ IF Len(list) = 0
              THEN /\ Respond(NextResponseJson(
                          [error |-> <<"No networks supported by facilitator">>], 500))
                   /\ sCalls' = calls
                   /\ UNCHANGED <<sNetwork, sProcessed>>
              ELSE IF refused.some
              THEN /\ Respond(refused.val)
                   /\ sCalls' = calls
                   /\ UNCHANGED <<sNetwork, sProcessed>>
              ELSE IF ~sReq.sig.some
              THEN /\ sNetwork' = network
                   /\ UNCHANGED sProcessed
                   /\ IF cached.some
                      THEN /\ Respond(cachedResponse(sReq.to, sReq.amount, network, cached.val))
                           /\ sCalls' = calls
                      ELSE /\ sPc' = "quotes"
                           /\ sCalls' = calls \o quoteCalls(network, sReq.amount, sRecipient)
                           /\ UNCHANGED sResp
              ELSE /\ sNetwork' = network
                   /\ IF sub.next = "respond"
                      THEN /\ Respond(sub.resp)
                           /\ sCalls' = calls
                           /\ UNCHANGED sProcessed
                      ELSE /\ sPc' = "verify"
                           /\ sProcessed' = Some(sub.processed)
                           /\ sCalls' = Append(calls, [op |-> "verify",
                                                       payload |-> sub.processed,
                                                       requirements |-> sub.processed.accepted])
                           /\ UNCHANGED sResp
    /\ UNCHANGED <<sReq, sRecipient, sExact, sEscrow, sVerify, sSettle>>


\* one of the two quote calls settles; the response is composed once both have
QuotesSettled(exactResult, escrowResult) ==
    Respond(handle402Response(sReq.to, sReq.amount, sNetwork, exactResult, escrowResult))

\* the exact call (getServer, buildPaymentRequirements) settles
ExactSettles(result) ==
    /\ sPc = "quotes"
    /\ UNCHANGED <<clientVars, formVars, libVars>>
    /\ ~sExact.some
    /\ sExact' = Some(result)
    /\ IF sEscrow.some
       THEN QuotesSettled(result, sEscrow.val)
       ELSE UNCHANGED <<sPc, sResp>>
    /\ UNCHANGED <<sReq, sRecipient, sSupported, sNetwork, sEscrow, sProcessed, sVerify, sSettle,
                   sCaught, sCalls, supportedNetworks>>

\* the escrow call (buildAcceptsResolved) settles
EscrowSettles(result) ==
    /\ sPc = "quotes"
    /\ UNCHANGED <<clientVars, formVars, libVars>>
    /\ ~sEscrow.some
    /\ sEscrow' = Some(result)
    /\ IF sExact.some
       THEN QuotesSettled(sExact.val, result)
       ELSE UNCHANGED <<sPc, sResp>>
    /\ UNCHANGED <<sReq, sRecipient, sSupported, sNetwork, sExact, sProcessed, sVerify, sSettle,
                   sCaught, sCalls, supportedNetworks>>

\* facilitator.verify returns or throws
VerifyReturns(verifyResult) ==
    /\ sPc = "verify"
    /\ UNCHANGED <<clientVars, formVars, libVars>>
    /\ sVerify' = Some(verifyResult)
    /\ sCaught' = verifyResult.threw
    /\ LET step == afterVerify(verifyResult)
       IN  IF step.next = "respond"
           THEN /\ Respond(step.resp)
                /\ UNCHANGED sCalls
           ELSE /\ sPc' = "settle"
                /\ sCalls' = Append(sCalls, [op |-> "settle",
                                             payload |-> sProcessed.val,
                                             requirements |-> sProcessed.val.accepted])
                /\ UNCHANGED sResp
    /\ UNCHANGED <<sReq, sRecipient, sSupported, sNetwork, sExact, sEscrow, sProcessed, sSettle,
                   supportedNetworks>>

\* variant: a reported settlement failure is retried
SettleReturns_RetriesFailure(settleResult) ==
    /\ sPc = "settle"
    /\ UNCHANGED <<clientVars, formVars, libVars>>
    /\ sSettle' = Some(settleResult)
    /\ sCaught' = settleResult.threw
    /\ IF ~settleResult.threw /\ ~settleResult.success
       THEN /\ sCalls' = Append(sCalls, [op |-> "settle",
                                         payload |-> sProcessed.val,
                                         requirements |-> sProcessed.val.accepted])
            /\ UNCHANGED <<sPc, sResp>>
       ELSE /\ Respond(afterSettle(sReq.to, sReq.amount, sNetwork, sRecipient, settleResult))
            /\ UNCHANGED sCalls
    /\ UNCHANGED <<sReq, sRecipient, sSupported, sNetwork, sExact, sEscrow, sProcessed, sVerify,
                   supportedNetworks>>

\* facilitator.settle returns or throws
SettleReturns(settleResult) ==
    /\ sPc = "settle"
    /\ UNCHANGED <<clientVars, formVars, libVars>>
    /\ sSettle' = Some(settleResult)
    /\ sCaught' = settleResult.threw
    /\ Respond(afterSettle(sReq.to, sReq.amount, sNetwork, sRecipient, settleResult))
    /\ UNCHANGED <<sReq, sRecipient, sSupported, sNetwork, sExact, sEscrow, sProcessed, sVerify, sCalls,
                   supportedNetworks>>

\* the response has been sent; the next request may arrive
Finish ==
    /\ sPc = "done"
    /\ UNCHANGED <<clientVars, formVars, libVars>>
    /\ sPc' = "idle"
    /\ sReq' = NoRequest
    /\ sRecipient' = NULL
    /\ sSupported' = None
    /\ sNetwork' = NULL
    /\ sExact' = None
    /\ sEscrow' = None
    /\ sProcessed' = None
    /\ sVerify' = None
    /\ sSettle' = None
    /\ sCaught' = FALSE
    /\ sCalls' = <<>>
    /\ sResp' = NoResponse
    /\ UNCHANGED supportedNetworks

\* getSupportedData(): the stored answer when there is one, else the
\* facilitator's answer, which is stored
getSupportedData(cache, supported) ==
    IF cache.some
    THEN [data |-> cache.val, cache |-> cache]
    ELSE [data |-> supported, cache |-> Some(supported)]

\* a call of getSupportedData (the /api/supported proxy) that the facilitator
\* answers; a call that rejects assigns nothing
GetSupportedData(kinds) ==
    /\ supportedData' = getSupportedData(supportedData, kinds).cache
    /\ UNCHANGED <<serverVars, clientVars, formVars, server, gCallers>>

\* clearCache(), when it has something to clear
clearCache ==
    /\ supportedNetworks.some \/ supportedData.some
    /\ UNCHANGED <<clientVars, formVars, server, gCallers>>
    /\ supportedNetworks' = None
    /\ supportedData' = None
    /\ UNCHANGED <<sPc, sReq, sRecipient, sSupported, sNetwork, sExact, sEscrow, sProcessed, sVerify,
                   sSettle, sCaught, sCalls, sResp>>

\* any request, when none is in hand
RequestArrives ==
    /\ sPc = "idle"
    /\ \E to \in ToValues, amount \in AmountValues, network \in NetworkValues,
          sig \in {None} \cup {Some(v) : v \in SignatureValues} :
            Receive(to, amount, network, sig)

\* the exact call settles with any result its source may give
ExactCallSettles ==
    /\ sPc = "quotes"
    /\ ~sExact.some
    /\ \E result \in SettledResults(ExactItems(sNetwork, sReq.amount, sRecipient)) :
            ExactSettles(result)

\* the escrow call settles with any result its source may give
EscrowCallSettles ==
    /\ sPc = "quotes"
    /\ ~sEscrow.some
    /\ \E result \in SettledResults(EscrowItems(sNetwork, sReq.amount, sRecipient)) :
            EscrowSettles(result)

ServerInit ==
    /\ sPc = "idle"
    /\ sReq = NoRequest
    /\ sRecipient = NULL
    /\ sSupported = None
    /\ sNetwork = NULL
    /\ sExact = None
    /\ sEscrow = None
    /\ sProcessed = None
    /\ sVerify = None
    /\ sSettle = None
    /\ sCaught = FALSE
    /\ sCalls = <<>>
    /\ sResp = NoResponse
    /\ supportedNetworks = None

ServerNext ==
    \/ RequestArrives
    \/ \E answer \in EnsAnswers : ResolveReturns(answer)
    \/ SupportedThrows
    \/ \E kinds \in KindsChoices, preprocessOk \in BOOLEAN : SupportedReturns(kinds, preprocessOk)
    \/ ExactCallSettles
    \/ EscrowCallSettles
    \/ \E verifyResult \in VerifyOutcomes : VerifyReturns(verifyResult)
    \/ \E settleResult \in SettleOutcomes : SettleReturns(settleResult)
    \/ Finish
    \/ clearCache
    \/ \E kinds \in KindsChoices : GetSupportedData(kinds)



\* ------------------------------------------------------------------------
\* Properties of the route
\* ------------------------------------------------------------------------

\* the request in hand passed validation, carried PAYMENT-SIGNATURE, and has
\* been answered
Submitted == sPc = "done" /\ sReq.sig.some /\ sNetwork # NULL

\* the request in hand passed validation, carried no PAYMENT-SIGNATURE, and has
\* been answered
Challenged == sPc = "done" /\ ~sReq.sig.some /\ sNetwork # NULL

Called(op) == \E i \in DOMAIN sCalls : sCalls[i].op = op

VerifiedValid == sVerify.some /\ ~sVerify.val.threw /\ sVerify.val.isValid

VerifiedInvalid == sVerify.some /\ ~sVerify.val.threw /\ ~sVerify.val.isValid

SettledOk == sSettle.some /\ ~sSettle.val.threw /\ sSettle.val.success

SettledFailed == sSettle.some /\ ~sSettle.val.threw /\ ~sSettle.val.success

\* the accepts list carried by the PAYMENT-REQUIRED header of the response
Accepts == JSONParse(Base64Decode(sResp.headers.paymentRequired.val))

\* what the two quote sources returned, exact first
RawQuotes ==
    (IF sExact.val.status = "fulfilled" THEN sExact.val.value ELSE <<>>)
        \o (IF sEscrow.val.status = "fulfilled" THEN sEscrow.val.value ELSE <<>>)

\* C1: a validated submission is answered 200 exactly when verify returned
\* valid and settle returned success, 402 when verify reports invalid or settle
\* reports failure, 500 when a step threw.
C1_StatusFollowsFacilitator ==
    Submitted =>
        /\ (sResp.status = 200) <=> (VerifiedValid /\ SettledOk)
        /\ (VerifiedInvalid \/ SettledFailed) => sResp.status = 402
        /\ sCaught => sResp.status = 500

C1_Witness ==
    Submitted /\ sResp.status = 200 /\ SettledOk /\ sSettle.val.transaction = "0xtx"

\* C2: settle is called only after verify, for the same payload, has returned
\* isValid = true; a submission rejected as malformed calls neither; a
\* submission whose verify reports invalid never calls settle.
C2_SettleOnlyAfterValidVerify ==
    /\ \A i \in DOMAIN sCalls :
          sCalls[i].op = "settle" =>
              /\ \E j \in 1..(i - 1) :
                    sCalls[j].op = "verify" /\ sCalls[j].payload = sCalls[i].payload
              /\ VerifiedValid
    /\ (Submitted /\ sResp.status = 400) => ~Called("verify") /\ ~Called("settle")
    /\ VerifiedInvalid => ~Called("settle")
    /\ Called("verify") => sProcessed.some
    /\ sPc = "settle" => Called("settle")

C2_Witness ==
    sPc = "done" /\ Called("settle") /\ VerifiedValid /\ SettledFailed

\* C3: a validated request without PAYMENT-SIGNATURE is answered 402 with a
\* PAYMENT-REQUIRED header exactly when the two quote calls returned at least
\* one requirement between them, and 500 without the header otherwise; no
\* PAYMENT-REQUIRED header carries an empty list.
C3_ChallengeIffOptions ==
    /\ Challenged =>
          /\ (sResp.status = 402 /\ sResp.headers.paymentRequired.some)
                 <=> (Len(RawQuotes) > 0)
          /\ Len(RawQuotes) = 0 =>
                 (sResp.status = 500 /\ ~sResp.headers.paymentRequired.some)
    /\ sResp.headers.paymentRequired.some => (sResp.status = 402 /\ Len(Accepts) > 0)

C3_Witness ==
    /\ Challenged
    /\ sExact.val = Fulfilled(<<>>)
    /\ sEscrow.val = Rejected
    /\ sResp.status = 500

\* C4 as stated: every element of the accepts list of a 402 challenge has the
\* network of the request and payTo equal to the resolved recipient, whatever
\* the two quote sources return.
C4_AcceptsMatchRequest ==
    (Challenged /\ sResp.status = 402) =>
        \A i \in DOMAIN Accepts :
            Accepts[i].network = sNetwork /\ Accepts[i].payTo = sRecipient

\* C4 amended: every element of the accepts list has the network and payTo its
\* quote source returned for it, and both quote calls were made with the
\* request's network and the resolved recipient.
C4_AcceptsEchoSources ==
    (Challenged /\ sResp.status = 402) =>
        /\ Len(Accepts) = Len(RawQuotes)
        /\ \A i \in DOMAIN Accepts :
              /\ Accepts[i].network = RawQuotes[i].network
              /\ Accepts[i].payTo = RawQuotes[i].payTo
        /\ \A i \in DOMAIN sCalls :
              sCalls[i].op \in {"buildPaymentRequirements", "buildAcceptsResolved"} =>
                  sCalls[i].network = sNetwork /\ sCalls[i].payTo = sRecipient

C4_Witness ==
    /\ Challenged
    /\ sResp.status = 402
    /\ \E i \in DOMAIN Accepts :
          Accepts[i].scheme = "escrow" /\ Accepts[i].payTo = OtherPayee

\* C5: when one quote call is rejected and the other returns at least one
\* requirement, the response is a 402 challenge whose accepts list is exactly
\* the normalized requirements of the call that succeeded.
C5_PartialFailureKeepsOther ==
    Challenged =>
        /\ (sExact.val = Rejected /\ sEscrow.val # Rejected /\ Len(sEscrow.val.value) > 0) =>
              /\ sResp.status = 402
              /\ Accepts = [i \in DOMAIN sEscrow.val.value |->
                               normalizeEscrow(sEscrow.val.value[i])]
        /\ (sEscrow.val = Rejected /\ sExact.val # Rejected /\ Len(sExact.val.value) > 0) =>
              /\ sResp.status = 402
              /\ Accepts = [i \in DOMAIN sExact.val.value |->
                               normalizeExact(sExact.val.value[i])]

C5_Witness ==
    /\ Challenged
    /\ sExact.val = Rejected
    /\ sEscrow.val # Rejected
    /\ Len(sEscrow.val.value) = 2
    /\ sResp.status = 402

\* C6 as stated: every response to a validated request that carries
\* PAYMENT-SIGNATURE has a PAYMENT-RESPONSE header that decodes to the JSON
\* body, and an Access-Control-Expose-Headers header naming PAYMENT-REQUIRED and
\* PAYMENT-RESPONSE.
C6_EveryBranchMirrorsBody ==
    Submitted =>
        /\ sResp.headers.paymentResponse.some
        /\ JSONParse(Base64Decode(sResp.headers.paymentResponse.val)) = JSONParse(sResp.body)
        /\ sResp.headers.expose.some
        /\ includes(sResp.headers.expose.val, "PAYMENT-REQUIRED")
        /\ includes(sResp.headers.expose.val, "PAYMENT-RESPONSE")

\* the decoded JSON value of the PAYMENT-SIGNATURE header lacks accepted or payload
LacksField(value) == value.isNull \/ ~value.accepted.some \/ ~value.payload.some

\* C10 as stated: a submitted payload that decodes to JSON in which accepted or
\* payload is absent is answered 400, and neither verify nor settle is called
\* for it.
C10_AbsentFieldRejected400 ==
    (Submitted /\ ~JSONParseThrows(Base64Decode(sReq.sig.val))
               /\ LacksField(JSONParse(Base64Decode(sReq.sig.val)))) =>
        /\ sResp.status = 400
        /\ ~Called("verify")
        /\ ~Called("settle")

\* what does hold: a JSON object without accepted or payload is answered 400,
\* and no decoded value lacking a field reaches the facilitator
MalformedObjectRejected ==
    (Submitted /\ ~JSONParseThrows(Base64Decode(sReq.sig.val))
               /\ LacksField(JSONParse(Base64Decode(sReq.sig.val)))) =>
        /\ ~JSONParse(Base64Decode(sReq.sig.val)).isNull => sResp.status = 400
        /\ JSONParse(Base64Decode(sReq.sig.val)).isNull => sResp.status = 500
        /\ ~Called("verify")
        /\ ~Called("settle")


\* ------------------------------------------------------------------------
\* usePayment: input-token policy and selector
\* ------------------------------------------------------------------------

\* variant: the addresses are compared as spelled
createInputTokenPolicy_CaseSensitive(inputToken, requirements) ==
    LET keeps(req) ==
            IF req.scheme = "exact" THEN req.asset = inputToken
            ELSE IF req.extra.swapData.some /\ req.extra.swapData.val.inputToken # <<>>
            THEN req.extra.swapData.val.inputToken = inputToken
            ELSE req.asset = inputToken
    IN  SelectSeq(requirements, keeps)

\* variant: nothing is filtered out
createInputTokenPolicy_KeepsAll(inputToken, requirements) == requirements

\* createInputTokenPolicy(inputToken)(_version, requirements): Array.filter
createInputTokenPolicy(inputToken, requirements) ==
    LET normalizedInput == toLowerCase(inputToken)
        keeps(req) ==
            IF req.scheme = "exact" THEN toLowerCase(req.asset) = normalizedInput
            ELSE IF req.extra.swapData.some /\ req.extra.swapData.val.inputToken # <<>>
            THEN toLowerCase(req.extra.swapData.val.inputToken) = normalizedInput
            ELSE toLowerCase(req.asset) = normalizedInput
    IN  SelectSeq(requirements, keeps)

\* variant: the first requirement, whatever its scheme
preferExactSelector_FirstOnly(requirements) ==
    IF requirements = <<>> THEN None ELSE Some(requirements[1])

\* preferExactSelector(_version, requirements): Array.find, else requirements[0]
\* (undefined for an empty list)
preferExactSelector(requirements) ==
    LET exactAt == {i \in DOMAIN requirements : requirements[i].scheme = "exact"}
    IN  IF exactAt # {}
        THEN Some(requirements[CHOOSE i \in exactAt : \A j \in exactAt : i <= j])
        ELSE IF requirements = <<>> THEN None ELSE Some(requirements[1])

\* client.createPaymentPayload up to the signature request: the registered
\* policy, then the selector; without a selected requirement there is nothing
\* to sign and the call rejects
selectRequirement(inputToken, paymentRequirements) ==
    LET filtered == createInputTokenPolicy(inputToken, paymentRequirements)
    IN  [filtered |-> filtered, chosen |-> preferExactSelector(filtered)]

\* the PAYMENT-SIGNATURE header value for a signed requirement
signatureHeader(accepted) ==
    Base64Encode(JSONStringify([isNull |-> FALSE, x402Version |-> 2,
                                accepted |-> Some(accepted), payload |-> Some(SignedData)]))

\* ------------------------------------------------------------------------
\* usePayment: what the hook is called with and what it may be answered
\* ------------------------------------------------------------------------

\* spellings of the chosen input token's address, as the token list gives them
InputTokens == {toLowerCase(USDC), WETH, DAI}

\* the requirements an accepts list may hold
ClientRequirement(scheme, asset, extra) ==
    [scheme |-> scheme, network |-> Base, asset |-> asset, amount |-> <<"1", ".", "0", "0">>,
     payTo |-> getAddress(Recipient1), maxTimeoutSeconds |-> 600, extra |-> extra]

ClientRequirements ==
    { ClientRequirement("exact", USDC, EmptyExtra),
      ClientRequirement("exact", WETH, EmptyExtra),
      ClientRequirement("escrow", USDC, EmptyExtra),
      ClientRequirement("escrow", USDC, SwapExtra(<<"0x", "B", "2">>, "compressed")),
      ClientRequirement("escrow", USDC, SwapExtra(<<>>, "compressed")),
      ClientRequirement("escrow", WETH, SwapExtra(USDC, "compressed")),
      ClientRequirement("escrow", WETH, SwapExtra(DAI, "compressed")) }

WithoutHeaders(resp) == [resp EXCEPT !.headers = NoHeaders]

\* the responses the route may give to a submission, and the same with the
\* custom headers stripped on the way
ClientResponses ==
    LET direct ==
            {afterSettle(Recipient1, <<"1", ".", "0", "0">>, Base, getAddress(Recipient1), o) :
                o \in SettleOutcomes}
            \cup {afterVerify(v).resp : v \in {x \in VerifyOutcomes : x.threw \/ ~x.isValid}}
            \cup {malformedResponse}
    IN  direct \cup {WithoutHeaders(r) : r \in direct}

NoParams ==
    [recipient |-> NULL, amount |-> NULL, network |-> NULL, inputToken |-> NULL,
     paymentRequirements |-> <<>>, hasAccount |-> FALSE]

NoOutcome == [kind |-> "none"]

Failed(message) == [kind |-> "error", message |-> message]

\* ------------------------------------------------------------------------
\* usePayment mutationFn, one action per stretch between two awaits
\* ------------------------------------------------------------------------

\* mutateAsync(params): account check, client set-up, requirement selection,
\* then the wallet is asked to sign
Mutate(amount, network, inputToken, paymentRequirements, hasAccount) ==
    /\ cPc = "idle"
    /\ UNCHANGED <<serverVars, libVars>>
    /\ cParams' = [recipient |-> Recipient1, amount |-> amount,
                   network |-> network, inputToken |-> inputToken,
                   paymentRequirements |-> paymentRequirements, hasAccount |-> hasAccount]
    /\ cSent' = <<>>
    /\ IF ~hasAccount
       THEN /\ cPc' = "done"
            /\ cOutcome' = Failed("Wallet not connected")
            /\ cFiltered' = <<>>
            /\ cChosen' = None
            /\ cPrompts' = 0
       ELSE LET sel == selectRequirement(inputToken, paymentRequirements)
            IN  /\ cFiltered' = sel.filtered
                /\ cChosen' = sel.chosen
                /\ IF sel.chosen.some
                   THEN /\ cPc' = "signing"
                        /\ cPrompts' = 1
                        /\ cOutcome' = NoOutcome
                   ELSE /\ cPc' = "done"
                        /\ cPrompts' = 0
                        /\ cOutcome' = Failed("No payment requirement selected")

\* the wallet signs: the payload is encoded and the GET is sent with it
WalletSigns ==
    /\ cPc = "signing"
    /\ UNCHANGED <<serverVars, formVars, libVars>>
    /\ cSent' = Append(cSent, [to |-> cParams.recipient, amount |-> cParams.amount,
                               network |-> cParams.network,
                               paymentSignature |-> signatureHeader(cChosen.val)])
    /\ cPc' = "fetching"
    /\ UNCHANGED <<cParams, cFiltered, cChosen, cPrompts, cOutcome>>

\* the signature prompt is dismissed, or signing fails
WalletRejects ==
    /\ cPc = "signing"
    /\ UNCHANGED <<serverVars, formVars, libVars>>
    /\ cPc' = "done"
    /\ cOutcome' = Failed("User rejected the request")
    /\ UNCHANGED <<cParams, cFiltered, cChosen, cPrompts, cSent>>

\* the response arrives: the PAYMENT-RESPONSE header if present, else the body
ResponseArrives(res) ==
    /\ cPc = "fetching"
    /\ UNCHANGED <<serverVars, formVars, libVars>>
    /\ cPc' = "done"
    /\ cOutcome' = [kind |-> "result",
                    result |-> IF res.headers.paymentResponse.some
                               THEN JSONParse(Base64Decode(res.headers.paymentResponse.val))
                               ELSE JSONParse(res.body)]
    /\ UNCHANGED <<cParams, cFiltered, cChosen, cPrompts, cSent>>

\* fetch rejects
FetchFails ==
    /\ cPc = "fetching"
    /\ UNCHANGED <<serverVars, formVars, libVars>>
    /\ cPc' = "done"
    /\ cOutcome' = Failed("Failed to fetch")
    /\ UNCHANGED <<cParams, cFiltered, cChosen, cPrompts, cSent>>

\* the mutation has ended; the hook may be called again
MutationSettled ==
    /\ cPc = "done"
    /\ UNCHANGED <<serverVars, formVars, libVars>>
    /\ cPc' = "idle"
    /\ cParams' = NoParams
    /\ cFiltered' = <<>>
    /\ cChosen' = None
    /\ cPrompts' = 0
    /\ cSent' = <<>>
    /\ cOutcome' = NoOutcome

\* the hook is called with any parameters
MutateAny ==
    /\ cPc = "idle"
    /\ UNCHANGED formVars
    /\ \E inputToken \in InputTokens,
          paymentRequirements \in SeqsUpTo(ClientRequirements, MaxAccepts),
          hasAccount \in BOOLEAN :
            Mutate(<<"1", ".", "0", "0">>, Base, inputToken, paymentRequirements, hasAccount)

ClientInit ==
    /\ cPc = "idle"
    /\ cParams = NoParams
    /\ cFiltered = <<>>
    /\ cChosen = None
    /\ cPrompts = 0
    /\ cSent = <<>>
    /\ cOutcome = NoOutcome

ClientNext ==
    \/ MutateAny
    \/ WalletSigns
    \/ WalletRejects
    \/ \E res \in ClientResponses : ResponseArrives(res)
    \/ FetchFails
    \/ MutationSettled

\* ------------------------------------------------------------------------
\* TipForm: network, token, amount, quote, allowance, approval and submit
\* ------------------------------------------------------------------------

USDCToken == [symbol |-> "USDC", address |-> USDC]

WETHToken == [symbol |-> "WETH", address |-> WETH]

\* what /api/supported may deliver: per network, its supportedInputTokens
NetworkConfigs ==
    { << [network |-> Base, supportedInputTokens |-> <<WETHToken, USDCToken>>],
         [network |-> BaseSepolia, supportedInputTokens |-> <<WETHToken>>] >>,
      << [network |-> Base, supportedInputTokens |-> <<WETHToken>>] >> }

\* the amounts typed into the field
FormAmounts == {<<"1", ".", "0", "0">>, <<"2">>, <<"0">>}

\* what usePaymentRequirements may deliver (queryFn returns the decoded
\* accepts of a 402 and throws otherwise); which amount and network a list was
\* fetched for is kept beside it, in fQuoted
FormAccepts ==
    { << ClientRequirement("exact", USDC, EmptyExtra),
         ClientRequirement("escrow", USDC, SwapExtra(<<"0x", "B", "2">>, "compressed")) >>,
      << ClientRequirement("escrow", USDC, SwapExtra(<<"0x", "B", "2">>, "compressed")) >> }

\* currentNetwork?.supportedInputTokens || []
tokensOf(networks, network) ==
    IF networks.some /\ \E i \in DOMAIN networks.val : networks.val[i].network = network
    THEN LET at == {i \in DOMAIN networks.val : networks.val[i].network = network}
         IN  networks.val[CHOOSE i \in at : \A j \in at : i <= j].supportedInputTokens
    ELSE <<>>

\* the form is rendered: the networks are loaded and list the wallet's network
formShown ==
    fNetworks.some /\ \E i \in DOMAIN fNetworks.val : fNetworks.val[i].network = fNetwork

\* selectedToken && tokens.some(same address, ignoring case)
tokenStillValid(selectedToken, tokens) ==
    /\ selectedToken.some
    /\ \E i \in DOMAIN tokens :
          toLowerCase(tokens[i].address) = toLowerCase(selectedToken.val.address)

\* tokens.find(symbol USDC) || tokens[0]
defaultToken(tokens) ==
    LET usdcAt == {i \in DOMAIN tokens : tokens[i].symbol = "USDC"}
    IN  IF usdcAt # {} THEN tokens[CHOOSE i \in usdcAt : \A j \in usdcAt : i <= j]
        ELSE tokens[1]

\* variant: the default-token effect leaves the selection as it is
settleToken_KeepsStale(selectedToken, tokens) == selectedToken

\* the default-token effect, run until it changes nothing
settleToken(selectedToken, tokens) ==
    IF Len(tokens) > 0 /\ ~tokenStillValid(selectedToken, tokens)
    THEN Some(defaultToken(tokens))
    ELSE selectedToken

\* enabled of usePaymentRequirements (the wallet's chains all map to a network)
quoteEnabled(debouncedAmount) == debouncedAmount # NULL /\ parseFloat(debouncedAmount).milli > 0

\* isLoadingRequirements || isFetchingRequirements || the debounce is pending
isQuoteLoading ==
    fFetching \/ (fAmount # fDebounced /\ parseFloat(fAmount).milli > 0)

\* selectedRequirement: the requirement the form reads its quote from. For a
\* token with symbol USDC the first exact requirement of that asset; else the
\* first escrow requirement whose swapData names the token as inputToken and
\* carries a maxInputAmount; else, for USDC, the first escrow requirement of
\* that asset; else undefined
selectedRequirement(paymentRequirements, selectedToken) ==
    IF Len(paymentRequirements) = 0 \/ ~selectedToken.some THEN None
    ELSE LET isUSDC == selectedToken.val.symbol = "USDC"
             tokenAddress == toLowerCase(selectedToken.val.address)
             first(at) == paymentRequirements[CHOOSE i \in at : \A j \in at : i <= j]
             exactAt == {i \in DOMAIN paymentRequirements :
                            /\ paymentRequirements[i].scheme = "exact"
                            /\ toLowerCase(paymentRequirements[i].asset) = tokenAddress}
             swapAt == {i \in DOMAIN paymentRequirements :
                            /\ paymentRequirements[i].scheme = "escrow"
                            /\ paymentRequirements[i].extra.swapData.some
                            /\ paymentRequirements[i].extra.swapData.val.inputToken # <<>>
                            /\ paymentRequirements[i].extra.swapData.val.maxInputAmount # ""
                            /\ toLowerCase(paymentRequirements[i].extra.swapData.val.inputToken)
                                   = tokenAddress}
             escrowAt == {i \in DOMAIN paymentRequirements :
                            /\ paymentRequirements[i].scheme = "escrow"
                            /\ toLowerCase(paymentRequirements[i].asset) = tokenAddress}
         IN  IF isUSDC /\ exactAt # {} THEN Some(first(exactAt))
             ELSE IF swapAt # {} THEN Some(first(swapAt))
             ELSE IF isUSDC /\ escrowAt # {} THEN Some(first(escrowAt))
             ELSE None

needsPermit2 == fToken.some /\ fToken.val.symbol # "USDC"

\* allowanceQuery.data?.hasAllowance ?? false
hasPermit2Allowance == fAllowance.data.some /\ fAllowance.data.val

\* !allowanceQuery.isLoading && !allowanceQuery.data?.hasAllowance
needsApproval == ~fAllowance.isLoading /\ ~hasPermit2Allowance

amountInvalid == fAmount = NULL \/ parseFloat(fAmount).milli <= 0

\* the submit button is rendered
submitShown == ~needsPermit2 \/ hasPermit2Allowance

\* its disabled attribute
submitDisabled ==
    \/ cPc \in {"signing", "fetching"}
    \/ isQuoteLoading
    \/ Len(fRequirements) = 0
    \/ ~fToken.some
    \/ ~fConnected
    \/ amountInvalid

\* the allowance query after its key (token, address) changed: loading when
\* it is enabled, idle without data when it is not
allowanceFor(token, connected) ==
    LET enabled == token.some /\ token.val.symbol # "USDC" /\ connected
    IN  [isLoading |-> enabled, isFetching |-> enabled, data |-> None]

\* the early returns of handleSubmit: the message set, or none
submitRefusal ==
    IF ~fConnected THEN Some(<<"Connect your wallet">>)
    ELSE IF Len(fRequirements) = 0 THEN Some(<<"No payment options available">>)
    ELSE IF ~fToken.some THEN Some(<<"Select a token">>)
    ELSE IF amountInvalid THEN Some(<<"Enter a valid amount">>)
    ELSE IF needsPermit2 /\ needsApproval THEN Some(<<"Please approve the token first">>)
    ELSE None

\* variant: a rejected mutation leaves the error slot empty
afterMutation_DropsError(outcome) ==
    IF outcome.kind = "error"
    THEN [error |-> None, onSuccess |-> None]
    ELSE LET result == outcome.result
             ok == "success" \in DOMAIN result /\ result.success
                       /\ "transaction" \in DOMAIN result
         IN  IF ok
             THEN [error |-> None, onSuccess |-> Some(result.transaction)]
             ELSE [error |-> Some(IF "errorReason" \in DOMAIN result
                                  THEN result.errorReason
                                  ELSE <<"Payment failed">>),
                   onSuccess |-> None]

\* what handleSubmit does once mutateAsync has settled: the message it sets,
\* or the transaction it passes to onSuccess
afterMutation(outcome) ==
    IF outcome.kind = "error"
    THEN [error |-> Some(<<outcome.message>>), onSuccess |-> None]
    ELSE LET result == outcome.result
             ok == "success" \in DOMAIN result /\ result.success
                       /\ "transaction" \in DOMAIN result
         IN  IF ok
             THEN [error |-> None, onSuccess |-> Some(result.transaction)]
             ELSE [error |-> Some(IF "errorReason" \in DOMAIN result
                                  THEN result.errorReason
                                  ELSE <<"Payment failed">>),
                   onSuccess |-> None]

\* fStarted and fResult tell of the submit in hand or just ended: an event
\* of the form outside a submit forgets them
forget(record) == IF fPc = "idle" THEN None ELSE record

\* setSelectedToken from the token selector, which lists the network's
\* tokens: the allowance query gets a new key
SelectToken(token) ==
    /\ fPc = "idle"
    /\ cPc = "idle"
    /\ formShown
    /\ \E i \in DOMAIN tokensOf(fNetworks, fNetwork) : tokensOf(fNetworks, fNetwork)[i] = token
    /\ fToken # Some(token)
    /\ fToken' = Some(token)
    /\ fAllowance' = allowanceFor(Some(token), fConnected)
    /\ fStarted' = None
    /\ fResult' = None
    /\ UNCHANGED <<fPc, fConnected, fAmount, fRequirements, fFetching, fQuoted, fDebounced,
                   fNetwork, fNetworks, fApproval, fError>>
    /\ UNCHANGED <<serverVars, clientVars, libVars>>

\* the wallet connects or disconnects
WalletChanges ==
    /\ fPc = "idle"
    /\ cPc = "idle"
    /\ fConnected' = ~fConnected
    /\ fAllowance' = allowanceFor(fToken, ~fConnected)
    /\ fStarted' = None
    /\ fResult' = None
    /\ UNCHANGED <<fPc, fToken, fAmount, fRequirements, fFetching, fQuoted, fDebounced,
                   fNetwork, fNetworks, fApproval, fError>>
    /\ UNCHANGED <<serverVars, clientVars, libVars>>

\* the wallet moves to the other chain. The chain effect clears the token and
\* the error and invalidates the quotes, whose key changes with the network;
\* the default-token effect then picks from the new network's list
ChainChanges ==
    /\ fPc = "idle"
    /\ cPc = "idle"
    /\ fNetwork' = IF fNetwork = Base THEN BaseSepolia ELSE Base
    /\ fToken' = settleToken(None, tokensOf(fNetworks, fNetwork'))
    /\ fError' = None
    /\ fRequirements' = <<>>
    /\ fQuoted' = None
    /\ fFetching' = quoteEnabled(fDebounced)
    /\ fAllowance' = allowanceFor(fToken', fConnected)
    /\ fStarted' = None
    /\ fResult' = None
    /\ UNCHANGED <<fPc, fConnected, fAmount, fDebounced, fNetworks, fApproval>>
    /\ UNCHANGED <<serverVars, clientVars, libVars>>

\* useSupportedNetworks delivers the networks, at first or anew: the
\* default-token effect runs on the new list
NetworksArrive(config) ==
    /\ fPc = "idle"
    /\ cPc = "idle"
    /\ fNetworks # Some(config)
    /\ fNetworks' = Some(config)
    /\ fToken' = settleToken(fToken, tokensOf(fNetworks', fNetwork))
    /\ fAllowance' = IF fToken' = fToken THEN fAllowance ELSE allowanceFor(fToken', fConnected)
    /\ fStarted' = None
    /\ fResult' = None
    /\ UNCHANGED <<fPc, fConnected, fAmount, fRequirements, fFetching, fQuoted, fDebounced,
                   fNetwork, fApproval, fError>>
    /\ UNCHANGED <<serverVars, clientVars, libVars>>

\* setAmount: the debounce timer starts anew
SetAmount(amount) ==
    /\ fPc = "idle"
    /\ cPc = "idle"
    /\ formShown
    /\ amount # fAmount
    /\ fAmount' = amount
    /\ fStarted' = None
    /\ fResult' = None
    /\ UNCHANGED <<fPc, fConnected, fToken, fRequirements, fFetching, fQuoted, fDebounced,
                   fNetwork, fNetworks, fAllowance, fApproval, fError>>
    /\ UNCHANGED <<serverVars, clientVars, libVars>>

\* the debounce timer fires, 500 ms after the last edit: the quotes' key
\* changes, the query has no data under the new key and fetches if enabled
DebounceFires ==
    /\ fPc = "idle"
    /\ cPc = "idle"
    /\ fDebounced # fAmount
    /\ fDebounced' = fAmount
    /\ fRequirements' = <<>>
    /\ fQuoted' = None
    /\ fFetching' = quoteEnabled(fAmount)
    /\ fStarted' = None
    /\ fResult' = None
    /\ UNCHANGED <<fPc, fConnected, fToken, fAmount, fNetwork, fNetworks, fAllowance,
                   fApproval, fError>>
    /\ UNCHANGED <<serverVars, clientVars, libVars>>

\* the 30 s refetch interval elapses: the query fetches again, keeping its data
RefetchStarts ==
    /\ fPc = "idle"
    /\ cPc = "idle"
    /\ quoteEnabled(fDebounced)
    /\ ~fFetching
    /\ fFetching' = TRUE
    /\ fStarted' = None
    /\ fResult' = None
    /\ UNCHANGED <<fPc, fConnected, fToken, fAmount, fRequirements, fQuoted, fDebounced,
                   fNetwork, fNetworks, fAllowance, fApproval, fError>>
    /\ UNCHANGED <<serverVars, clientVars, libVars>>

\* usePaymentRequirements delivers the list fetched for its key
RequirementsArrive(list) ==
    /\ fPc = "idle"
    /\ cPc = "idle"
    /\ fFetching
    /\ fRequirements' = list
    /\ fQuoted' = Some([amount |-> fDebounced, network |-> fNetwork])
    /\ fFetching' = FALSE
    /\ fStarted' = None
    /\ fResult' = None
    /\ UNCHANGED <<fPc, fConnected, fToken, fAmount, fDebounced, fNetwork, fNetworks,
                   fAllowance, fApproval, fError>>
    /\ UNCHANGED <<serverVars, clientVars, libVars>>

\* the quote fetch fails: the data, if any, stays
RequirementsFail ==
    /\ fPc = "idle"
    /\ cPc = "idle"
    /\ fFetching
    /\ fFetching' = FALSE
    /\ fStarted' = None
    /\ fResult' = None
    /\ UNCHANGED <<fPc, fConnected, fToken, fAmount, fRequirements, fQuoted, fDebounced,
                   fNetwork, fNetworks, fAllowance, fApproval, fError>>
    /\ UNCHANGED <<serverVars, clientVars, libVars>>

\* the allowance read returns
AllowanceReturns(hasAllowance) ==
    /\ fAllowance.isFetching
    /\ fAllowance' = [isLoading |-> FALSE, isFetching |-> FALSE, data |-> Some(hasAllowance)]
    /\ fStarted' = forget(fStarted)
    /\ fResult' = forget(fResult)
    /\ UNCHANGED <<fPc, fConnected, fToken, fAmount, fRequirements, fFetching, fQuoted,
                   fDebounced, fNetwork, fNetworks, fApproval, fError>>
    /\ UNCHANGED <<serverVars, clientVars, libVars>>

\* the allowance read fails: the data, if any, stays
AllowanceFails ==
    /\ fAllowance.isFetching
    /\ fAllowance' = [fAllowance EXCEPT !.isLoading = FALSE, !.isFetching = FALSE]
    /\ fStarted' = forget(fStarted)
    /\ fResult' = forget(fResult)
    /\ UNCHANGED <<fPc, fConnected, fToken, fAmount, fRequirements, fFetching, fQuoted,
                   fDebounced, fNetwork, fNetworks, fApproval, fError>>
    /\ UNCHANGED <<serverVars, clientVars, libVars>>

\* variant: the approve button stays enabled while an approval is pending
HandleApprove_WhilePending ==
    /\ fPc = "idle"
    /\ cPc = "idle"
    /\ formShown
    /\ needsPermit2
    /\ needsApproval
    /\ IF fConnected
       THEN /\ fApproval' = [status |-> "pending-signature", txHash |-> FALSE]
            /\ fError' = None
       ELSE /\ fApproval' = [fApproval EXCEPT !.status = "error"]
            /\ fError' = Some(<<"Approval failed: ", "Wallet not connected">>)
    /\ fStarted' = None
    /\ fResult' = None
    /\ UNCHANGED <<fPc, fConnected, fToken, fAmount, fRequirements, fFetching, fQuoted,
                   fDebounced, fNetwork, fNetworks, fAllowance>>
    /\ UNCHANGED <<serverVars, clientVars, libVars>>

\* handleApprove, from the approve button (rendered while an approval is
\* needed, enabled while no approval is pending): the approval mutation
\* starts, or throws at once when no wallet is connected
HandleApprove ==
    /\ fPc = "idle"
    /\ cPc = "idle"
    /\ formShown
    /\ needsPermit2
    /\ needsApproval
    /\ fApproval.status \notin {"pending-signature", "pending-confirmation"}
    /\ IF fConnected
       THEN /\ fApproval' = [status |-> "pending-signature", txHash |-> FALSE]
            /\ fError' = None
       ELSE /\ fApproval' = [fApproval EXCEPT !.status = "error"]
            /\ fError' = Some(<<"Approval failed: ", "Wallet not connected">>)
    /\ fStarted' = None
    /\ fResult' = None
    /\ UNCHANGED <<fPc, fConnected, fToken, fAmount, fRequirements, fFetching, fQuoted,
                   fDebounced, fNetwork, fNetworks, fAllowance>>
    /\ UNCHANGED <<serverVars, clientVars, libVars>>

\* writeContract returns the transaction hash
ApprovalSigned ==
    /\ fApproval.status = "pending-signature"
    /\ fApproval' = [status |-> "pending-confirmation", txHash |-> TRUE]
    /\ fStarted' = forget(fStarted)
    /\ fResult' = forget(fResult)
    /\ UNCHANGED <<fPc, fConnected, fToken, fAmount, fRequirements, fFetching, fQuoted,
                   fDebounced, fNetwork, fNetworks, fAllowance, fError>>
    /\ UNCHANGED <<serverVars, clientVars, libVars>>

\* simulateContract, writeContract or waitForTransactionReceipt rejects
ApprovalFails ==
    /\ fApproval.status \in {"pending-signature", "pending-confirmation"}
    /\ fApproval' = [fApproval EXCEPT !.status = "error"]
    /\ fError' = Some(<<"Approval failed: ", "rejected">>)
    /\ fStarted' = forget(fStarted)
    /\ fResult' = forget(fResult)
    /\ UNCHANGED <<fPc, fConnected, fToken, fAmount, fRequirements, fFetching, fQuoted,
                   fDebounced, fNetwork, fNetworks, fAllowance>>
    /\ UNCHANGED <<serverVars, clientVars, libVars>>

\* waitForTransactionReceipt returns: the allowance query is invalidated
ApprovalConfirmed ==
    /\ fApproval.status = "pending-confirmation"
    /\ fApproval' = [fApproval EXCEPT !.status = "confirmed"]
    /\ fAllowance' = IF needsPermit2 /\ fConnected
                     THEN [fAllowance EXCEPT !.isFetching = TRUE]
                     ELSE fAllowance
    /\ fStarted' = forget(fStarted)
    /\ fResult' = forget(fResult)
    /\ UNCHANGED <<fPc, fConnected, fToken, fAmount, fRequirements, fFetching, fQuoted,
                   fDebounced, fNetwork, fNetworks, fError>>
    /\ UNCHANGED <<serverVars, clientVars, libVars>>

\* handleSubmit up to the await of payment.mutateAsync. The form's submit
\* event fires from the submit button when it is rendered and enabled, and
\* from the amount field when the form renders no submit button
HandleSubmit ==
    /\ fPc = "idle"
    /\ cPc = "idle"
    /\ formShown
    /\ submitShown => ~submitDisabled
    /\ fResult' = None
    /\ fError' = submitRefusal
    /\ IF submitRefusal.some
       THEN UNCHANGED <<fPc, fStarted, serverVars, clientVars, libVars>>
       ELSE /\ fPc' = "awaiting"
            /\ fStarted' = Some([token |-> fToken.val, allowance |-> fAllowance,
                                 amount |-> fAmount, network |-> fNetwork,
                                 quoted |-> fQuoted,
                                 shown |-> selectedRequirement(fRequirements, fToken)])
            /\ Mutate(fAmount, fNetwork, fToken.val.address, fRequirements, TRUE)
    /\ UNCHANGED <<fConnected, fToken, fAmount, fRequirements, fFetching, fQuoted, fDebounced,
                   fNetwork, fNetworks, fAllowance, fApproval>>

\* handleSubmit after mutateAsync has settled; the mutation has ended
SubmitSettles ==
    /\ fPc = "awaiting"
    /\ cPc = "done"
    /\ fPc' = "idle"
    /\ cPc' = "idle"
    /\ fError' = afterMutation(cOutcome).error
    /\ fResult' = Some([outcome |-> cOutcome, error |-> afterMutation(cOutcome).error,
                        onSuccess |-> afterMutation(cOutcome).onSuccess,
                        prompts |-> cPrompts, sent |-> cSent])
    /\ UNCHANGED <<fConnected, fToken, fAmount, fRequirements, fFetching, fQuoted, fDebounced,
                   fNetwork, fNetworks, fAllowance, fApproval, fStarted>>
    /\ cParams' = NoParams
    /\ cFiltered' = <<>>
    /\ cChosen' = None
    /\ cPrompts' = 0
    /\ cSent' = <<>>
    /\ cOutcome' = NoOutcome
    /\ UNCHANGED <<serverVars, libVars>>

FormInit ==
    /\ fPc = "idle"
    /\ fConnected = FALSE
    /\ fToken = None
    /\ fAmount = <<"1", ".", "0", "0">>
    /\ fRequirements = <<>>
    /\ fFetching = TRUE
    /\ fQuoted = None
    /\ fDebounced = <<"1", ".", "0", "0">>
    /\ fNetwork = Base
    /\ fNetworks = None
    /\ fAllowance = allowanceFor(None, FALSE)
    /\ fApproval = [status |-> "idle", txHash |-> FALSE]
    /\ fError = None
    /\ fStarted = None
    /\ fResult = None

FormNext ==
    \/ \E token \in {USDCToken, WETHToken} : SelectToken(token)
    \/ WalletChanges
    \/ ChainChanges
    \/ \E config \in NetworkConfigs : NetworksArrive(config)
    \/ \E amount \in FormAmounts : SetAmount(amount)
    \/ DebounceFires
    \/ RefetchStarts
    \/ \E list \in FormAccepts : RequirementsArrive(list)
    \/ RequirementsFail
    \/ \E hasAllowance \in BOOLEAN : AllowanceReturns(hasAllowance)
    \/ AllowanceFails
    \/ HandleApprove
    \/ ApprovalSigned
    \/ ApprovalFails
    \/ ApprovalConfirmed
    \/ HandleSubmit
    \/ SubmitSettles
    \/ WalletSigns
    \/ WalletRejects
    \/ \E res \in ClientResponses : ResponseArrives(res)
    \/ FetchFails

\* ------------------------------------------------------------------------
\* The hook's request served by the route
\* ------------------------------------------------------------------------

\* the GET sent by the hook reaches the route
SubmissionArrives ==
    /\ cPc = "fetching"
    /\ sPc = "idle"
    /\ Receive(cSent[Len(cSent)].to, cSent[Len(cSent)].amount, cSent[Len(cSent)].network,
               Some(cSent[Len(cSent)].paymentSignature))

\* the route's response reaches the hook
ResponseReturns ==
    /\ sPc = "done"
    /\ ResponseArrives(sResp)

\* one submit after another: the hook is called when the route is idle, and
\* the route takes the next request once the hook has left its fetch
FlowNext ==
    \/ sPc = "idle" /\ MutateAny
    \/ WalletSigns
    \/ WalletRejects
    \/ SubmissionArrives
    \/ \E answer \in EnsAnswers : ResolveReturns(answer)
    \/ SupportedThrows
    \/ \E kinds \in KindsChoices, preprocessOk \in BOOLEAN : SupportedReturns(kinds, preprocessOk)
    \/ \E verifyResult \in VerifyOutcomes : VerifyReturns(verifyResult)
    \/ \E settleResult \in SettleOutcomes : SettleReturns(settleResult)
    \/ ResponseReturns
    \/ FetchFails
    \/ cPc # "fetching" /\ Finish
    \/ clearCache
    \/ MutationSettled

\* ------------------------------------------------------------------------
\* lib/x402: getServer, called concurrently
\* ------------------------------------------------------------------------

MaxCallers == 3

Callers == 1..MaxCallers

NotCalling == [pc |-> "idle", got |-> None]

\* the registrations made for the facilitator's kinds, in order
RECURSIVE registrationsOf(_)
registrationsOf(kinds) ==
    IF kinds = <<>> THEN <<>>
    ELSE IF Head(kinds).scheme \in {"exact", "escrow"}
    THEN <<Head(kinds)>> \o registrationsOf(Tail(kinds))
    ELSE registrationsOf(Tail(kinds))

\* getServer() up to its first await: the instance is returned when there is
\* one; otherwise it is created, stored, and facilitator.getSupported is called
GetServer(c) ==
    /\ gCallers[c].pc = "idle"
    /\ IF server.some
       THEN /\ gCallers' = [gCallers EXCEPT ![c] = [pc |-> "returned", got |-> server]]
            /\ UNCHANGED server
       ELSE /\ server' = Some([registered |-> None, initialized |-> FALSE])
            /\ gCallers' = [gCallers EXCEPT ![c].pc = "getSupported"]
    /\ UNCHANGED <<serverVars, clientVars, formVars, supportedData>>

\* facilitator.getSupported returns: the schemes are registered and
\* initialize() is called
GetSupportedReturns(c, kinds) ==
    /\ gCallers[c].pc = "getSupported"
    /\ server' = Some([server.val EXCEPT !.registered = Some(registrationsOf(kinds))])
    /\ gCallers' = [gCallers EXCEPT ![c].pc = "initialize"]
    /\ UNCHANGED <<serverVars, clientVars, formVars, supportedData>>

\* _server.initialize() returns: the caller is given the instance
InitializeReturns(c) ==
    /\ gCallers[c].pc = "initialize"
    /\ server' = Some([server.val EXCEPT !.initialized = TRUE])
    /\ gCallers' = [gCallers EXCEPT ![c] = [pc |-> "returned", got |-> server']]
    /\ UNCHANGED <<serverVars, clientVars, formVars, supportedData>>

\* facilitator.getSupported or _server.initialize rejects: getServer rejects
GetServerRejects(c) ==
    /\ gCallers[c].pc \in {"getSupported", "initialize"}
    /\ gCallers' = [gCallers EXCEPT ![c].pc = "threw"]
    /\ UNCHANGED server
    /\ UNCHANGED <<serverVars, clientVars, formVars, supportedData>>

\* the caller has used what it was given; it may call again
CallerDone(c) ==
    /\ gCallers[c].pc \in {"returned", "threw"}
    /\ gCallers' = [gCallers EXCEPT ![c] = NotCalling]
    /\ UNCHANGED server
    /\ UNCHANGED <<serverVars, clientVars, formVars, supportedData>>

LibInit ==
    /\ server = None
    /\ supportedData = None
    /\ gCallers = [c \in Callers |-> NotCalling]

LibNext ==
    \/ \E c \in Callers : GetServer(c)
    \/ \E c \in Callers, kinds \in KindsChoices : GetSupportedReturns(c, kinds)
    \/ \E c \in Callers : InitializeReturns(c)
    \/ \E c \in Callers : GetServerRejects(c)
    \/ \E c \in Callers : CallerDone(c)
    \/ \E kinds \in KindsChoices : GetSupportedData(kinds)
    \/ clearCache

Init == ServerInit /\ ClientInit /\ FormInit /\ LibInit

\* the route, serving one request after another
Spec == Init /\ [][ServerNext]_vars

\* the payment hook, one mutation after another
ClientSpec == Init /\ [][ClientNext]_vars

\* the route when every call it awaits returns, except that the facilitator's
\* verify and settle may never return
LiveSpec ==
    /\ Init
    /\ [][ServerNext]_vars
    /\ WF_vars(\E answer \in EnsAnswers : ResolveReturns(answer))
    /\ WF_vars(SupportedThrows
                  \/ \E kinds \in KindsChoices, preprocessOk \in BOOLEAN :
                         SupportedReturns(kinds, preprocessOk))
    /\ WF_vars(ExactCallSettles)
    /\ WF_vars(EscrowCallSettles)
    /\ WF_vars(Finish)

\* getServer under concurrent callers
LibSpec == Init /\ [][LibNext]_vars

\* the tip form, one user event or completion after another
FormSpec == Init /\ [][FormNext]_vars

\* the hook and the route together, the hook's request being the route's
FlowSpec == Init /\ [][FlowNext]_vars


\* ------------------------------------------------------------------------
\* Properties of the payment hook
\* ------------------------------------------------------------------------

SameIgnoringCase(a, b) ==
    Len(a) = Len(b) /\ \A i \in DOMAIN a : LowerChar(a[i]) = LowerChar(b[i])

\* a requirement is compatible with the chosen token
Compatible(token, req) ==
    IF req.scheme = "exact" THEN SameIgnoringCase(req.asset, token)
    ELSE IF req.extra.swapData.some /\ req.extra.swapData.val.inputToken # <<>>
    THEN SameIgnoringCase(req.extra.swapData.val.inputToken, token)
    ELSE SameIgnoringCase(req.asset, token)

\* the positions of the accepts list that hold a compatible requirement
CompatibleAt ==
    {i \in DOMAIN cParams.paymentRequirements :
        Compatible(cParams.inputToken, cParams.paymentRequirements[i])}

\* the k-th of those positions
KthCompatible(k) ==
    CHOOSE i \in CompatibleAt : Cardinality({j \in CompatibleAt : j < i}) = k - 1

\* a mutation with a connected wallet is under way or has ended
Attempted == cPc # "idle" /\ cParams.hasAccount

\* C7: the input-token policy keeps exactly the compatible requirements, in
\* their order in the accepts list.
C7_PolicyKeepsCompatible ==
    Attempted =>
        /\ Len(cFiltered) = Cardinality(CompatibleAt)
        /\ \A k \in DOMAIN cFiltered :
              cFiltered[k] = cParams.paymentRequirements[KthCompatible(k)]

C7_Witness ==
    /\ cPc = "signing"
    /\ Len(cParams.paymentRequirements) = 3
    /\ CompatibleAt = {1, 3}
    /\ cFiltered = <<cParams.paymentRequirements[1], cParams.paymentRequirements[3]>>
    /\ cFiltered[1].scheme = "escrow"
    /\ cFiltered[1].extra.swapData.some
    /\ cFiltered[1].extra.swapData.val.inputToken # <<>>
    /\ cFiltered[1].extra.swapData.val.inputToken # cParams.inputToken

\* C8: the selector returns the first requirement with scheme exact of the
\* filtered list when there is one, else the first requirement of the filtered
\* list, an escrow one; the requirement sent as accepted is that requirement,
\* and it passed the input-token filter.
C8_SelectorPrefersExact ==
    cChosen.some =>
        LET exactAt == {i \in DOMAIN cFiltered : cFiltered[i].scheme = "exact"}
        IN  /\ exactAt # {} =>
                  /\ cChosen.val.scheme = "exact"
                  /\ \E i \in exactAt : /\ cChosen.val = cFiltered[i]
                                        /\ \A j \in exactAt : i <= j
            /\ exactAt = {} =>
                  /\ cChosen.val = cFiltered[1]
                  /\ cChosen.val.scheme = "escrow"
            /\ Compatible(cParams.inputToken, cChosen.val)
            /\ \E i \in CompatibleAt : cParams.paymentRequirements[i] = cChosen.val
            /\ \A k \in DOMAIN cSent :
                  JSONParse(Base64Decode(cSent[k].paymentSignature)).accepted.val = cChosen.val

C8_Witness ==
    /\ cPc = "fetching"
    /\ Len(cFiltered) = 3
    /\ cFiltered[1].scheme = "escrow"
    /\ cFiltered[2].scheme = "escrow"
    /\ cFiltered[3].scheme = "exact"
    /\ cChosen.val = cFiltered[3]
    /\ Len(cSent) = 1

\* C9: when no requirement of the accepts list is compatible with the chosen
\* token, the attempt ends with an error, the wallet is never asked to sign and
\* no request with PAYMENT-SIGNATURE is sent.
C9_NoMatchNoSignature ==
    (Attempted /\ CompatibleAt = {}) =>
        /\ cPc = "done"
        /\ cOutcome.kind = "error"
        /\ ~cChosen.some
        /\ cPrompts = 0
        /\ cSent = <<>>

C9_Witness ==
    /\ Attempted
    /\ Len(cParams.paymentRequirements) = 3
    /\ CompatibleAt = {}
    /\ cPc = "done"
    /\ cOutcome.kind = "error"

\* outside the malformed-payload branch the PAYMENT-RESPONSE header mirrors the
\* body and both headers are exposed
MirroredOutsideMalformed ==
    (Submitted /\ sResp.status # 400) =>
        /\ sResp.headers.paymentResponse.some
        /\ JSONParse(Base64Decode(sResp.headers.paymentResponse.val)) = JSONParse(sResp.body)
        /\ sResp.headers.expose = Some(ExposeHeaders)


\* ------------------------------------------------------------------------
\* Properties of the route: decoding and validation
\* ------------------------------------------------------------------------

\* the text the PAYMENT-SIGNATURE header decodes to is not JSON
Undecodable == sReq.sig.some /\ JSONParseThrows(Base64Decode(sReq.sig.val))

\* C11 as stated: a PAYMENT-SIGNATURE value that fails decoding or JSON parsing
\* is answered 400, not 500, and no facilitator call is made for it.
C11_UndecodableRejected400 ==
    (Submitted /\ Undecodable) =>
        /\ sResp.status = 400
        /\ ~Called("verify")
        /\ ~Called("settle")

\* what does hold: the parse error is caught and answered 500, mirrored into
\* PAYMENT-RESPONSE, and neither verify nor settle is called
UndecodableCaught ==
    (Submitted /\ Undecodable) =>
        /\ sResp.status = 500
        /\ sCaught
        /\ sResp.headers.paymentResponse.some
        /\ ~Called("verify")
        /\ ~Called("settle")

\* the request in hand has been answered
Answered == sPc = "done"

\* to or amount failed the checks made before any await
ParamsInvalid == validateParams(sReq.to, sReq.amount).some

\* the network parameter is given and is not of the form eip155:<digits>
NetworkMalformed == sReq.network # NULL /\ ~matchesEip155(sReq.network)

\* the response is the one that lists the supported networks
ListsSupported == "supportedNetworks" \in DOMAIN sResp.body.json

\* one of the three inputs failed validation: to or amount refused or the
\* recipient unresolved (recipientAddress never set), the network malformed, or
\* the network refused as unsupported
FailsValidation ==
    Answered /\ (sRecipient = NULL \/ NetworkMalformed \/ ListsSupported)

QuoteCalled == Called("buildPaymentRequirements") \/ Called("buildAcceptsResolved")

\* C12 as stated: when one of the three inputs fails validation the request
\* ends with 400 and no outbound call at all has been made for it.
C12_InvalidInputNoNetworkCall ==
    FailsValidation =>
        /\ sResp.status = 400
        /\ sCalls = <<>>

\* what does hold: a request refused for its inputs never reaches the quote
\* sources, verify or settle; the name-resolution RPC and the facilitator's
\* getSupported may have been called
RefusedInputReachesNoPayment ==
    FailsValidation =>
        /\ ~QuoteCalled
        /\ ~Called("verify")
        /\ ~Called("settle")
        /\ \A i \in DOMAIN sCalls : sCalls[i].op \in {"getEnsAddress", "getSupported"}

\* C13: without to or amount the answer is 400 with an error containing
\* "Missing"; with an amount that does not parse to a number above zero it is
\* 400 with an "Invalid amount" error; in both cases no call is made, so the
\* requirements builder, verify and settle are never reached.
C13_MissingOrInvalidAmount ==
    Answered =>
        /\ (sReq.to = NULL \/ sReq.amount = NULL) =>
              /\ sResp.status = 400
              /\ includes(sResp.body.json.error, "Missing")
              /\ sCalls = <<>>
        /\ (sReq.to # NULL /\ sReq.amount # NULL
               /\ (parseFloat(sReq.amount).nan \/ parseFloat(sReq.amount).milli <= 0)) =>
              /\ sResp.status = 400
              /\ includes(sResp.body.json.error, "Invalid amount")
              /\ sCalls = <<>>

\* a request for amount "0" that carries a PAYMENT-SIGNATURE header has been
\* refused
C13_Witness ==
    /\ Answered
    /\ sReq.to = Recipient1
    /\ sReq.amount = <<"0">>
    /\ sReq.sig.some
    /\ sResp.status = 400

\* the list GET obtained from getSupportedNetworks is not empty
HasSupported == sSupported.some /\ Len(sSupported.val) > 0

\* the network parameter is given and is not in the list GET obtained
NetworkUnsupported ==
    sSupported.some /\ sReq.network # NULL /\ ~includes(sSupported.val, sReq.network)

DefaultsNetwork == sReq.network = NULL /\ HasSupported

\* every use the request makes of a network is a use of the given one: the
\* quote calls, the resource of the forwarded payload, the success body
UsesNetwork(network) ==
    /\ sNetwork = network
    /\ \A i \in DOMAIN sCalls :
          sCalls[i].op \in {"buildPaymentRequirements", "buildAcceptsResolved"} =>
              sCalls[i].network = network
    /\ sProcessed.some =>
          sProcessed.val.resource = resourceOf(sReq.to, sReq.amount, network)
    /\ (Answered /\ sResp.status = 200 /\ sSettle.val.network = NULL) =>
          sResp.body.json.network = network

\* C15 as stated: a request without network is processed with the first
\* supported network, as the request naming that network would be, and never
\* fails network validation.
C15_DefaultNetworkNeverRefused ==
    DefaultsNetwork => UsesNetwork(sSupported.val[1])

\* C15, amended: a request without network is processed with the first
\* supported network whenever that network has the form eip155:<digits>, and
\* never fails the membership check; when the first supported network has
\* another form the request is answered 400 for its format.
C15_DefaultNetworkUsed ==
    DefaultsNetwork =>
        IF matchesEip155(sSupported.val[1])
        THEN UsesNetwork(sSupported.val[1])
        ELSE /\ Answered
             /\ sResp.status = 400
             /\ ~ListsSupported
             /\ sNetwork = NULL

\* a request without network has been settled on the first supported network
C15_Witness ==
    /\ Answered
    /\ DefaultsNetwork
    /\ sSupported.val[1] = Base
    /\ sResp.status = 200
    /\ sResp.body.json.network = Base


\* ------------------------------------------------------------------------
\* Properties of the form: rejection and approval
\* ------------------------------------------------------------------------

\* C16: when the user dismisses the wallet's signature prompt, the attempt
\* ends with no header sent (so no request carries PAYMENT-SIGNATURE), the
\* rejection message is in the form's error slot, onSuccess is not called,
\* and nothing runs again: one prompt was shown and both the hook and the
\* form are idle.
C16_RejectionShownNoRetry ==
    (fResult.some /\ fResult.val.outcome = Failed("User rejected the request")) =>
        /\ fError = Some(<<"User rejected the request">>)
        /\ fResult.val.onSuccess = None
        /\ fResult.val.sent = <<>>
        /\ fResult.val.prompts = 1
        /\ cPc = "idle"
        /\ fPc = "idle"

C16_Witness ==
    /\ fResult.some
    /\ fResult.val.outcome = Failed("User rejected the request")
    /\ fStarted.some
    /\ fResult.val.prompts = 1
    /\ fError = Some(<<"User rejected the request">>)

\* C17: for a non-USDC token the form starts the payment submission only
\* when the allowance read has finished and reported a sufficient allowance.
C17_SwapStartsOnlyWithAllowance ==
    (fStarted.some /\ fStarted.val.token.symbol # "USDC") =>
        /\ ~fStarted.val.allowance.isLoading
        /\ fStarted.val.allowance.data = Some(TRUE)

\* a swap payment started while the allowance read was still loading
C17_StartedWhileChecking ==
    /\ fStarted.some
    /\ fStarted.val.token.symbol # "USDC"
    /\ fStarted.val.allowance.isLoading
    /\ cSent # <<>>


\* ------------------------------------------------------------------------
\* Properties of the route: the challenge and the accepted requirement
\* ------------------------------------------------------------------------

\* C18: in a 402 challenge built when the escrow source returned at least
\* one requirement, the first element of the PAYMENT-REQUIRED list is an
\* escrow requirement.
C18_FirstIsEscrow ==
    ( /\ Challenged
      /\ sResp.status = 402
      /\ sEscrow.some
      /\ sEscrow.val.status = "fulfilled"
      /\ Len(sEscrow.val.value) >= 1 )
    => Accepts[1].scheme = "escrow"

\* both sources returned requirements and the list starts with an exact one
C18_ExactFirst ==
    /\ Challenged
    /\ sResp.status = 402
    /\ sEscrow.some
    /\ sEscrow.val.status = "fulfilled"
    /\ Len(sEscrow.val.value) >= 1
    /\ sExact.val.status = "fulfilled"
    /\ Len(sExact.val.value) >= 1
    /\ Accepts[1].scheme = "exact"
    /\ Accepts[Len(sExact.val.value) + 1].scheme = "escrow"


\* C19: a submission is answered 200 only when the requirement that was
\* verified and settled (the payload's accepted field) pays the resolved
\* recipient of the request on the request's network.
C19_SuccessOnlyForThisTip ==
    (Submitted /\ sResp.status = 200) =>
        /\ sProcessed.val.accepted.payTo = sRecipient
        /\ sProcessed.val.accepted.network = sNetwork

\* a receipt naming the request's recipient for a payment to another payee
C19_ReceiptForOtherPayee ==
    /\ Submitted
    /\ sResp.status = 200
    /\ sResp.body.json.recipient = sRecipient
    /\ sProcessed.val.accepted.payTo = OtherPayee
    /\ sRecipient # OtherPayee
    /\ Called("verify")
    /\ Called("settle")


\* ------------------------------------------------------------------------
\* Properties of a submission from the hook to the facilitator
\* ------------------------------------------------------------------------

\* C20: for one user submit the hook sends at most one request carrying
\* PAYMENT-SIGNATURE, and for that request the route calls the facilitator's
\* verify at most once and settle at most once, whatever the outcome
\* (invalid, settlement failure, exception).
C20_AtMostOnce ==
    /\ Len(cSent) <= 1
    /\ Cardinality({i \in DOMAIN sCalls : sCalls[i].op = "verify"}) <= 1
    /\ Cardinality({i \in DOMAIN sCalls : sCalls[i].op = "settle"}) <= 1

\* the hook was handed a settlement failure after one request, one verify
\* and one settle
C20_Witness ==
    /\ cPc = "done"
    /\ Len(cSent) = 1
    /\ sReq.sig = Some(cSent[1].paymentSignature)
    /\ SettledFailed
    /\ sResp.status = 402
    /\ Cardinality({i \in DOMAIN sCalls : sCalls[i].op = "verify"}) = 1
    /\ Cardinality({i \in DOMAIN sCalls : sCalls[i].op = "settle"}) = 1
    /\ cOutcome.kind = "result"
    /\ ~cOutcome.result.success


\* ------------------------------------------------------------------------
\* Properties of the route: preprocessing, cache, supported networks
\* ------------------------------------------------------------------------

\* C21: every verify and settle call of a submission is given the one
\* preprocessed payload, with its swap calldata decompressed, and as
\* requirements the accepted field of that preprocessed payload; the rest of
\* the payload is what the header carried.
C21_ProcessedPayloadForBoth ==
    \A i \in DOMAIN sCalls :
        sCalls[i].op \in {"verify", "settle"} =>
            LET call == sCalls[i]
                received == JSONParse(Base64Decode(sReq.sig.val))
                swap == call.payload.accepted.extra.swapData
            IN  /\ call.payload = sProcessed.val
                /\ call.requirements = call.payload.accepted
                /\ swap.some => swap.val.calldata = "raw"
                /\ swap.some = received.accepted.val.extra.swapData.some
                /\ call.payload.payload = received.payload.val
                /\ call.payload.accepted.payTo = received.accepted.val.payTo

\* a submission with compressed calldata was verified and settled
C21_Witness ==
    /\ Submitted
    /\ sResp.status = 200
    /\ Called("verify")
    /\ Called("settle")
    /\ JSONParse(Base64Decode(sReq.sig.val)).accepted.val.extra.swapData.some
    /\ JSONParse(Base64Decode(sReq.sig.val)).accepted.val.extra.swapData.val.calldata
           = "compressed"
    /\ sProcessed.val.accepted.extra.swapData.val.calldata = "raw"


C23_HungCallAnswered ==
    (sPc \in {"verify", "settle"}) ~> (sPc = "done")

\* the route is suspended in facilitator.verify
C23_AwaitingVerify ==
    /\ sPc = "verify"
    /\ Called("verify")
    /\ ~sVerify.some
    /\ sResp = NoResponse


\* C24: whatever the interleaving of getServer calls, a caller is given the
\* instance only with its schemes registered and initialize() completed, also
\* after an earlier attempt failed.
C24_ServerGivenInitialized ==
    \A c \in Callers :
        gCallers[c].pc = "returned" =>
            /\ gCallers[c].got.val.registered.some
            /\ gCallers[c].got.val.initialized

\* a caller was given the instance while another caller was still awaiting
\* facilitator.getSupported
C24_GivenDuringSetup ==
    \E c, d \in Callers :
        /\ gCallers[c].pc = "returned"
        /\ ~gCallers[c].got.val.initialized
        /\ gCallers[d].pc = "getSupported"

\* a caller was given the instance that a failed attempt left behind
C24_GivenAfterFailure ==
    /\ \E c \in Callers :
        /\ gCallers[c].pc = "returned"
        /\ ~gCallers[c].got.val.registered.some
    /\ \A d \in Callers : gCallers[d].pc \notin {"getSupported", "initialize"}


\* ------------------------------------------------------------------------
\* Properties of the form: quote, requirements, result, approval, token
\* ------------------------------------------------------------------------

\* the token of the form's list that the hook was given the address of
TokenOf(address) ==
    [symbol |-> IF toLowerCase(address) = toLowerCase(USDC) THEN "USDC" ELSE "OTHER",
     address |-> address]

\* the requirement the form reads its quote from, for the mutation in hand
Shown == selectedRequirement(cParams.paymentRequirements, Some(TokenOf(cParams.inputToken)))

\* C25: for every accepts list and selected token, the requirement the form
\* picks for its quote is the requirement the hook's policy and selector pick
\* for signing.
C25_ShownIsSigned ==
    (cPc # "idle" /\ cParams.hasAccount) => Shown = cChosen

\* the wallet is asked to sign a requirement other than the one the form
\* shows the quote of
C25_SignsOtherThanShown ==
    /\ cPc = "signing"
    /\ Shown.some
    /\ Shown # cChosen
    /\ toLowerCase(cParams.inputToken) # toLowerCase(USDC)


\* C26: whenever the form starts a payment, the requirement list it passes
\* was fetched for the amount and network the submission sends (the recipient
\* is fixed for the form's lifetime), under any interleaving of amount edits,
\* the debounce, the refetch and wallet network changes.
C26_QuotedForWhatIsSent ==
    fStarted.some =>
        fStarted.val.quoted =
            Some([amount |-> fStarted.val.amount, network |-> fStarted.val.network])

\* a payment was started, and its request sent, for an amount typed after the
\* quotes in hand were fetched and before the debounce fired
C26_SentWithEarlierQuote ==
    /\ fStarted.some
    /\ fStarted.val.quoted.some
    /\ fStarted.val.quoted.val.amount # fStarted.val.amount
    /\ fStarted.val.quoted.val.network = fStarted.val.network
    /\ cSent # <<>>
    /\ cSent[Len(cSent)].amount = fStarted.val.amount


\* the mutation ended with a payment result, and the result says success
ResultSucceeded ==
    /\ fResult.some
    /\ fResult.val.outcome.kind = "result"
    /\ "success" \in DOMAIN fResult.val.outcome.result
    /\ fResult.val.outcome.result.success = TRUE

\* C27: the form calls onSuccess for every payment result with success = true
\* and shows an error for every other result; a settlement answered with
\* success = true is never shown as "Payment failed".
C27_SuccessReported ==
    (fResult.some /\ fResult.val.outcome.kind = "result") =>
        /\ ResultSucceeded => (fResult.val.onSuccess.some /\ fError = None)
        /\ ~ResultSucceeded => (fResult.val.onSuccess = None /\ fError # None)

\* a settlement answered with success = true is shown as "Payment failed"
C27_SettledShownAsFailed ==
    /\ ResultSucceeded
    /\ fResult.val.onSuccess = None
    /\ fError = Some(<<"Payment failed">>)


\* the transaction hash is there when the status says a transaction was sent
HashKnown(approval) ==
    approval.status \in {"pending-confirmation", "confirmed"} => approval.txHash

\* C28, as stated: the approval status moves only along idle,
\* pending-signature, pending-confirmation, confirmed, to error from a failed
\* attempt and to idle by reset; the transaction hash is set whenever the
\* status is pending-confirmation or confirmed.
C28_StatusAlongChain ==
    [][/\ fApproval'.status # fApproval.status =>
            \/ fApproval.status = "idle" /\ fApproval'.status = "pending-signature"
            \/ fApproval.status = "pending-signature"
                   /\ fApproval'.status = "pending-confirmation"
            \/ fApproval.status = "pending-confirmation" /\ fApproval'.status = "confirmed"
            \/ fApproval'.status = "error"
            \/ fApproval'.status = "idle"
       /\ HashKnown(fApproval')]_vars

\* C28, amended: an attempt starts (pending-signature) from idle, error or
\* confirmed and never from a pending state; pending-confirmation follows
\* pending-signature only and confirmed follows pending-confirmation only
\* (the receipt wait has returned); error follows a failed attempt; the form
\* never resets the status to idle; the transaction hash is set whenever the
\* status is pending-confirmation or confirmed.
C28_StatusByAttempts ==
    [][/\ fApproval'.status # fApproval.status =>
            \/ fApproval.status \in {"idle", "error", "confirmed"}
                   /\ fApproval'.status = "pending-signature"
            \/ fApproval.status = "pending-signature"
                   /\ fApproval'.status = "pending-confirmation"
            \/ fApproval.status = "pending-confirmation" /\ fApproval'.status = "confirmed"
            \/ fApproval'.status = "error"
       /\ HashKnown(fApproval')]_vars

\* an approval is awaiting its receipt, its hash known, while the approve
\* button is rendered for a token that still needs the approval
C28_Witness ==
    /\ fApproval = [status |-> "pending-confirmation", txHash |-> TRUE]
    /\ formShown
    /\ needsPermit2
    /\ needsApproval
    /\ fConnected


\* the token is of the list, by address ignoring case
ListedIn(token, tokens) ==
    \E i \in DOMAIN tokens : toLowerCase(tokens[i].address) = toLowerCase(token.address)

\* C29: with the effects settled and a non-empty token list for the current
\* network, the selected token is a member of that list; when the effects
\* choose it (the network or the networks changed) it is the token with symbol
\* USDC if the list has one and the first token otherwise, and after a wallet
\* network change it is chosen anew; a payment is started with a token of the
\* list of the network it is sent for.
C29_TokenOfCurrentNetwork ==
    [][LET tokens == tokensOf(fNetworks', fNetwork')
       IN  /\ Len(tokens) > 0 => (fToken'.some /\ ListedIn(fToken'.val, tokens))
           /\ (Len(tokens) > 0 /\ (fNetwork' # fNetwork
                                     \/ (fNetworks' # fNetworks /\ fToken' # fToken))) =>
                  fToken' = Some(defaultToken(tokens))
           /\ fStarted'.some =>
                  ListedIn(fStarted'.val.token,
                           tokensOf(fNetworks', fStarted'.val.network))]_vars

\* a payment is sent on Base Sepolia, where the wallet moved to from Base,
\* with the token of that network's list
C29_Witness ==
    /\ fStarted.some
    /\ fStarted.val.network = BaseSepolia
    /\ fStarted.val.token = defaultToken(tokensOf(fNetworks, BaseSepolia))
    /\ ~ListedIn(USDCToken, tokensOf(fNetworks, BaseSepolia))
    /\ cSent # <<>>
    /\ cSent[Len(cSent)].network = BaseSepolia


\* ------------------------------------------------------------------------
\* Properties of lib/x402: the supported-data caches
\* ------------------------------------------------------------------------

\* the request in hand has called the facilitator for its supported kinds
FetchedSupported(calls) == \E i \in DOMAIN calls : calls[i].op = "getSupported"

\* getSupportedNetworks returns to the request in hand in this step
NetworksReturned == sPc = "supported" /\ sPc' # "supported" /\ sSupported'.some

ClearCacheKeepsServer ==
    [][(supportedData.some /\ supportedData' = None) => server' = server]_vars

=============================================================================
